---------------------------- MODULE Spec2Model ----------------------------
(***************************************************************************)
(* Model of the download orchestration engine of auto-ytdlp.               *)
(*                                                                         *)
(* Four objects of the repository are modelled, each driven by its own     *)
(* harness (variable `component` says which one a behaviour exercises):    *)
(*   "dm", "dm2"  DownloadManager (src/download_manager.py): the           *)
(*          dispatcher thread run(), the pool workers running              *)
(*          download_video(), and the caller's thread doing add_download() *)
(*          and stop();                                                    *)
(*   "ytdlp" AutoYTDLP.start_downloads / stop_downloads                     *)
(*          (src/auto_ytdlp.py) over PerformanceControl                    *)
(*          (src/performance_control.py), called directly;                 *)
(*   "orch" AutoYTDLP.run with its VPN connection, its user interface and  *)
(*          the start_downloads calls it leads to;                         *)
(*   "pq"   PerformanceControl.process_queue with its worker pool;         *)
(*   "pq2"  the same with any max_concurrent_downloads up to the bound and *)
(*          with faults that escape download_video, the queue being        *)
(*          filled with distinct URLs before the first process_queue call; *)
(*   "vpn"  VPNManager.should_switch (src/vpn_manager.py) on a fresh       *)
(*          manager;                                                       *)
(*   "tui"  TUIManager.update_download_status (src/tui_manager.py) on a    *)
(*          fresh TUIManager.                                              *)
(* Python threads interleave between bytecodes; queue.Queue operations,    *)
(* dict/set operations and Event operations are atomic.  A step of the     *)
(* model is one such operation, together with the thread-local code that   *)
(* follows it.                                                             *)
(***************************************************************************)
EXTENDS Integers, Sequences, FiniteSets, TLC

(* ------------------------------ bounds -------------------------------- *)
MaxTasks == 3        \* number of add_download calls explored

NumUrls == 2         \* distinct URLs a links file or a queue may hold
MaxLinks == 2        \* lines of a links file
MaxRuns == 2         \* start_downloads calls, or process_queue calls, explored
MaxStops == 2        \* stop() calls explored on one DownloadManager
MaxStopTasks == 2    \* add_download calls explored together with repeated stops
MaxQueue == 2        \* length of the queue process_queue is given
MaxSwitchAfter == 3  \* configured switch_after values explored: 1..MaxSwitchAfter
MaxSpeed == 2        \* speeds and speed thresholds explored: 0..MaxSpeed
MaxCalls == 7        \* should_switch calls explored on a fresh VPNManager
MaxBatchTasks == 4   \* URLs given to a DownloadManager that is never stopped
MaxTuiCalls == 3     \* update_download_status calls explored on one TUIManager
NumTuiUrls == 4      \* URLs displayed by the TUIManager explored alone
MaxClock == 3        \* the clock of the progress samples runs from 0 to MaxClock
MaxEvents == 3       \* progress events delivered to progress_hook
MaxBytes == 2        \* most bytes a 'downloading' progress event reports
RestartLinks == 1    \* lines of a links file when two threads call start_downloads
MaxSwitches == 2     \* switch_server calls explored on one VPNManager
OrchLinks == 3       \* lines of the links file of a run() of AutoYTDLP
OrchRuns == 2        \* start_downloads calls explored in one run()
OrchEnqueued == 4    \* add_to_queue calls explored in one run()

(* max_concurrent_downloads: constructor argument of DownloadManager and   *)
(* of PerformanceControl (a configuration value, fixed for a run).         *)
max_concurrent_downloads == 2

(* The URLs given to DownloadManager.add_download.  The caller passes      *)
(* distinct URLs and they are interchangeable: the k-th call passes URL k. *)
(* (Repeated URLs are explored on PerformanceControl's queue.)             *)
Tasks == 1..MaxTasks
AllTasks == 1..(IF MaxBatchTasks > MaxTasks THEN MaxBatchTasks ELSE MaxTasks)

(* os.getpid(): the process id of the process running the engine.         *)
EnginePid == 1

(* self.current_ydl = None                                                *)
NoYdl == -1
(* The download_video call made by start_downloads in its own thread; the  *)
(* calls submitted by process_queue are numbered from 1 in submit order,   *)
(* MaxQueue numbers for each call of process_queue.                        *)
Inline == 0

URLs == 1..NumUrls
TuiUrls == 1..NumTuiUrls
Speeds == 0..MaxSpeed
Exec == 0..(MaxRuns * MaxQueue)

(* The call of process_queue (1, 2, ...) whose executor call x was         *)
(* submitted to, and the first call that process_queue call r submits.     *)
PoolOf(x) == ((x - 1) \div MaxQueue) + 1
FirstOf(r) == (r - 1) * MaxQueue + 1

(* info['id'] of extract_info: the content identifier of a URL.  Distinct  *)
(* URLs may lead to the same content (URLs 1 and 3 do).                    *)
VideoId(url) == ((url - 1) % 2) + 1

(* The contents of the links file: the non-blank lines, in file order.     *)
LinkLists == UNION {[1..n -> URLs] : n \in 0..MaxLinks}

TerminalStatus == {"Completed", "Error", "Stopped", "Cancelled"}

VARIABLES
  component,          \* which object the behaviour drives
  engine_alive,       \* FALSE once a termination signal has killed the engine
  \* ---- DownloadManager fields
  download_queue,     \* self.download_queue, FIFO of URLs
  status_queue,       \* self.status_queue, kept as its per-URL subsequences
  stop_event,         \* self.stop_event
  executor_shutdown,  \* self.executor._shutdown
  work_queue,         \* self.executor._work_queue (submitted, not yet taken)
  fut,                \* state of the future submitted for each URL
  current_futures,    \* self.current_futures
  current_processes,  \* self.current_processes: URL -> pid
  \* ---- caller of add_download / stop
  n_added,            \* number of add_download calls made
  m_pc, m_task,       \* position of the calling thread
  s_snap, s_visited,  \* stop(): set iterator over current_futures
  s_items,            \* stop(): list(self.current_processes.items()) left
  \* ---- dispatcher thread (run)
  d_pc, d_futures, d_task,
  \* ---- pool workers (download_video)
  w_pc,
  claim_order,        \* URLs in the order run() took them from the queue
  at_stop,            \* what the first stop() found when it was called
  stops,              \* number of stop() calls begun
  signals,            \* per URL: parent.terminate() calls on its registered process
  at_restop,          \* signals sent and events published when a later stop() began
  \* ---- VPNManager fields
  switch_after, speed_threshold, download_count,
  vpn_calls,          \* number of should_switch calls made
  last_call,          \* the latest should_switch call: speed, count before, result
  sw_pc,              \* position of the thread calling switch_server
  sw_calls,           \* number of switch_server calls begun
  tool_log,           \* rotation tool invocations of the latest switch_server call
  sw_result,          \* how the latest switch_server call ended
  \* ---- PerformanceControl fields
  pc_download_queue,  \* self.download_queue (a list)
  download_archive,   \* self.download_archive (set of content identifiers)
  stop_flag,          \* self.stop_flag
  current_ydl,        \* self.current_ydl: the call whose YoutubeDL it is, or NoYdl
  executor,           \* self.executor: "None", "open" or "shutdown"
  \* ---- AutoYTDLP fields
  is_downloading, vpn_switch_needed,
  \* ---- thread running start_downloads
  o_pc, current_url, runs,
  enqueued,           \* arguments of the add_to_queue calls, in call order
  claimed,            \* URLs in the order the loop popped them
  history,            \* results of the download_video calls of the loop
  switches,           \* number of switch_server calls
  \* ---- AutoYTDLP under run(), with its user interface
  use_tui,            \* self.tui_manager is not None
  links_file,         \* the lines of the links file during run()
  archive_file,       \* the identifiers in the archive file (general.archive_file)
  download_list,      \* tui_manager.download_list: the entries displayed
  ui_reports,         \* update_download_status calls, in call order
  shown_switched,     \* show_output("VPN connection switched") calls
  outcomes,           \* results received by the loop and the rotation decisions
  triggers,           \* should_switch calls that returned true since the
                      \* latest switch_server call
  switch_log,         \* the switch_server calls: outcome, and triggers before
  o_exit,             \* how the latest start_downloads call ended
  r_pc,               \* position of the thread running run()
  disconnects,        \* vpn_manager.disconnect() calls made by run()
  \* ---- thread running stop_downloads / stop_queue
  k_pc,
  \* ---- download_video calls of PerformanceControl
  dv_pc, dv_url, dv_exc, dv_result,
  dv_fetched,         \* ydl.download was invoked by the call
  dv_hook_raised,     \* progress_hook raised the cancellation fault in the call
  dv_archived,        \* the call added its content identifier to the archive
  \* ---- thread running process_queue, and its pool
  q_pc, q_next, q_work, q_yielded, results,
  pc_max_workers,     \* self.max_concurrent_downloads
  pending_at_stop,    \* work items no pool thread had taken when stop_queue
                      \* was called
  \* ---- the progress sample of PerformanceControl
  start_time,         \* self.start_time
  downloaded_bytes,   \* self.downloaded_bytes
  now,                \* time.time()
  hook_events,        \* the progress events delivered to progress_hook
  \* ---- a second thread calling start_downloads, and the stop requests
  b_pc,               \* position of the second thread
  stops_at_start,     \* a stop request had completed when the latest
                      \* start_downloads call passed its guard
  stop_since_start,   \* a stop request took effect since then
  file_missing,       \* the latest load_url_list found no readable file
  \* ---- DownloadManager.run
  stale               \* futures that were done and still in current_futures
                      \* when the latest iteration of run began

stopHist == <<stops, signals, at_restop>>

dmVars == <<download_queue, status_queue, stop_event, executor_shutdown,
            work_queue, fut, current_futures, current_processes,
            n_added, m_pc, m_task, s_snap, s_visited, s_items, d_pc,
            d_futures, d_task, w_pc, claim_order, at_stop, stops, signals,
            at_restop>>

swVars == <<sw_pc, sw_calls, tool_log, sw_result>>

vpnVars == <<switch_after, speed_threshold, download_count, vpn_calls,
             last_call, swVars>>

orchVars == <<use_tui, links_file, archive_file, download_list, ui_reports,
              shown_switched, outcomes,
              triggers, switch_log, o_exit, r_pc, disconnects>>

pcVars == <<pc_download_queue, download_archive, stop_flag, current_ydl,
            executor, is_downloading, vpn_switch_needed, o_pc, current_url,
            runs, enqueued, claimed, history, switches, k_pc, orchVars>>

dvVars == <<dv_pc, dv_url, dv_exc, dv_result, dv_fetched, dv_hook_raised,
            dv_archived>>

pqVars == <<q_pc, q_next, q_work, q_yielded, results, pc_max_workers,
           pending_at_stop>>

sampleVars == <<start_time, downloaded_bytes, now, hook_events>>

restartVars == <<b_pc, stops_at_start, stop_since_start, file_missing>>

vars == <<component, engine_alive, dmVars, vpnVars, pcVars, dvVars, pqVars,
          sampleVars, restartVars, stale>>

(* ------------------------- DownloadManager ---------------------------- *)

(* The behaviours of DownloadManager are explored twice: under "dm" with   *)
(* MaxTasks URLs and one stop() call, and under "dm2" with MaxStopTasks    *)
(* URLs and up to MaxStops stop() calls; the signals sent by stop() are    *)
(* recorded under "dm2".  Under "dm3" MaxBatchTasks URLs are explored with *)
(* no stop() call, and the futures run() leaves in current_futures are     *)
(* recorded.                                                               *)
DM == component \in {"dm", "dm2", "dm3"}
TaskLimit == IF component = "dm" THEN MaxTasks
             ELSE IF component = "dm3" THEN MaxBatchTasks
             ELSE MaxStopTasks
StopLimit == IF component = "dm" THEN 1 ELSE MaxStops

(* DownloadManager.log: status_queue.put(('status', url, status)).         *)
log(q, url, status) == [q EXCEPT ![url] = Append(@, status)]

(* State after DownloadManager.__init__ (and Thread.start()).             *)
InitDM ==
  /\ download_queue = <<>>
  /\ status_queue = [u \in AllTasks |-> <<>>]
  /\ stop_event = FALSE
  /\ executor_shutdown = FALSE
  /\ work_queue = <<>>
  /\ fut = [t \in AllTasks |-> "none"]
  /\ current_futures = {}
  /\ current_processes = <<>>
  /\ n_added = 0
  /\ m_pc = "idle" /\ m_task = 0
  /\ s_snap = {} /\ s_visited = {} /\ s_items = <<>>
  /\ d_pc = "check" /\ d_futures = {} /\ d_task = 0
  /\ w_pc = [t \in AllTasks |-> "none"]
  /\ claim_order = <<>>
  /\ at_stop = [queued |-> {}, quiet |-> FALSE, registered |-> {}]
  /\ stops = 0
  /\ signals = [t \in AllTasks |-> 0]
  /\ at_restop = [signals |-> 0, events |-> 0]
  /\ stale = {}

(* ThreadPoolExecutor(max_workers=max_concurrent_downloads): the number of *)
(* pool threads, each running one work item at a time.                     *)
ExecutorMaxWorkers == max_concurrent_downloads

(* A wait() that a finished future does not wake.                          *)
FutureDoneCancelledOnly == {"cancelled_notified"}

(* The states in which concurrent.futures.wait counts a future as done.    *)
FutureDone == {"finished", "cancelled_notified"}
Running == {t \in AllTasks : fut[t] = "running"}

(* add_download, line 89: self.download_queue.put(url).                    *)
add_download(url) ==
  /\ UNCHANGED <<sampleVars, restartVars, stale>>
  /\ DM /\ engine_alive
  /\ m_pc = "idle"
  /\ n_added < TaskLimit
  /\ url = n_added + 1
  /\ n_added' = n_added + 1
  /\ download_queue' = Append(download_queue, url)
  /\ m_task' = url
  /\ m_pc' = "log_queued"
  /\ UNCHANGED <<vpnVars, pcVars, dvVars, pqVars>>
  /\ UNCHANGED stopHist
  /\ UNCHANGED <<component, engine_alive, status_queue, stop_event,
                 executor_shutdown, work_queue, fut, current_futures,
                 current_processes, s_snap, s_visited, s_items, d_pc,
                 d_futures, d_task, w_pc, claim_order, at_stop>>

(* add_download, line 90: self.log('status', url, 'Queued').               *)
add_download_log ==
  /\ UNCHANGED <<sampleVars, restartVars, stale>>
  /\ DM /\ engine_alive
  /\ m_pc = "log_queued"
  /\ status_queue' = log(status_queue, m_task, "Queued")
  /\ m_pc' = "idle"
  /\ m_task' = 0
  /\ UNCHANGED <<vpnVars, pcVars, dvVars, pqVars>>
  /\ UNCHANGED stopHist
  /\ UNCHANGED <<component, engine_alive, download_queue, stop_event,
                 executor_shutdown, work_queue, fut, current_futures,
                 current_processes, n_added, s_snap, s_visited,
                 s_items, d_pc, d_futures, d_task, w_pc, claim_order, at_stop>>

(* Termination signals sent so far to registered processes, and status    *)
(* events published so far by stop() ('Stopped', 'Cancelled').             *)
RECURSIVE Sum(_, _)
Sum(f, S) == IF S = {} THEN 0
             ELSE LET x == CHOOSE y \in S : TRUE IN f[x] + Sum(f, S \ {x})
SignalsSent == Sum(signals, AllTasks)
StopEvents ==
  Sum([u \in AllTasks |-> Cardinality({i \in DOMAIN status_queue[u] :
                        status_queue[u][i] \in {"Stopped", "Cancelled"}})],
      AllTasks)

(* stop, lines 93-94: self.stop_event.set(), then the set iterator of      *)
(* `for future in self.current_futures` is created.  stop() has no guard:  *)
(* a caller may call it again after it returned.                           *)
stop_set ==
  /\ UNCHANGED <<sampleVars, restartVars, stale>>
  /\ DM /\ engine_alive
  /\ \/ m_pc = "idle" /\ stops = 0
     \/ m_pc = "stopped" /\ stops \in 1..(StopLimit - 1)
  /\ stops' = stops + 1
  /\ stop_event' = TRUE
  /\ s_snap' = current_futures
  /\ s_visited' = {}
  /\ m_pc' = "cancel"
  /\ IF stops = 0
       THEN /\ at_stop' = [queued |-> {download_queue[i] : i \in DOMAIN download_queue},
                           quiet |-> d_task = 0 /\ \A u \in AllTasks : fut[u] \in {"none", "finished"},
                           registered |-> IF component = "dm2"
                                            THEN DOMAIN current_processes ELSE {}]
            /\ UNCHANGED at_restop
       ELSE /\ at_restop' = [signals |-> SignalsSent, events |-> StopEvents]
            /\ UNCHANGED at_stop
  /\ UNCHANGED signals
  /\ UNCHANGED <<vpnVars, pcVars, dvVars, pqVars>>
  /\ UNCHANGED <<component, engine_alive, download_queue, status_queue,
                 executor_shutdown, work_queue, fut, current_futures,
                 current_processes, n_added, m_task, s_items, d_pc,
                 d_futures, d_task, w_pc, claim_order>>

(* stop, lines 94-96: one step of the loop over current_futures.  The set  *)
(* iterator raises RuntimeError when the set changed size since the        *)
(* iterator was created; an element added meanwhile (size restored by a    *)
(* removal) may or may not be visited.  future.cancel() cancels a future   *)
(* that is still pending and leaves any other alone.  When the loop ends:  *)
(* self.executor.shutdown(wait=False) and, line 99, the snapshot           *)
(* list(self.current_processes.items()).                                   *)
stop_cancel ==
  /\ UNCHANGED <<sampleVars, restartVars, stale>>
  /\ DM /\ engine_alive
  /\ m_pc = "cancel"
  /\ IF Cardinality(current_futures) # Cardinality(s_snap)
       THEN /\ m_pc' = "raised"
            /\ UNCHANGED <<fut, s_visited, executor_shutdown, s_items>>
       ELSE \/ \E f \in current_futures \ s_visited :
                 /\ fut' = [fut EXCEPT ![f] = IF @ = "pending" THEN "cancelled" ELSE @]
                 /\ s_visited' = s_visited \cup {f}
                 /\ UNCHANGED <<m_pc, executor_shutdown, s_items>>
            \/ /\ (current_futures \cap s_snap) \subseteq s_visited
               /\ executor_shutdown' = TRUE
               /\ s_items' = current_processes
               /\ m_pc' = "terminate"
               /\ UNCHANGED <<fut, s_visited>>
  /\ UNCHANGED <<vpnVars, pcVars, dvVars, pqVars>>
  /\ UNCHANGED stopHist
  /\ UNCHANGED <<component, engine_alive, download_queue, status_queue,
                 stop_event, work_queue, current_futures, current_processes,
                 n_added, m_task, s_snap, d_pc, d_futures, d_task,
                 w_pc, claim_order, at_stop>>

(* stop, lines 99-108: one iteration of the loop over the snapshot.        *)
(* psutil.Process(pid) exists (pid is the engine's own); the engine has no *)
(* handler for the termination signal parent.terminate() sends, so the     *)
(* signal ends the process unless the environment intercepts it (the       *)
(* tests replace psutil.Process).  If the engine goes on, line 106 logs    *)
(* 'Stopped'.  With the snapshot exhausted the drain loop follows.         *)
stop_terminate ==
  /\ UNCHANGED <<sampleVars, restartVars, stale>>
  /\ DM /\ engine_alive
  /\ m_pc = "terminate"
  /\ IF DOMAIN s_items = {}
       THEN /\ m_pc' = "drain"
            /\ UNCHANGED <<engine_alive, status_queue, s_items, signals>>
       ELSE \E url \in DOMAIN s_items :
              /\ s_items' = [u \in DOMAIN s_items \ {url} |-> s_items[u]]
              /\ m_pc' = m_pc
              /\ signals' = IF component = "dm2"
                              THEN [signals EXCEPT ![url] = @ + 1] ELSE signals
              /\ \/ /\ s_items[url] = EnginePid
                    /\ engine_alive' = FALSE
                    /\ UNCHANGED status_queue
                 \/ /\ status_queue' = log(status_queue, url, "Stopped")
                    /\ UNCHANGED engine_alive
  /\ UNCHANGED <<vpnVars, pcVars, dvVars, pqVars>>
  /\ UNCHANGED <<component, download_queue, stop_event, executor_shutdown,
                 work_queue, fut, current_futures, current_processes,
                 n_added, m_task, s_snap, s_visited, d_pc, d_futures, d_task,
                 w_pc, claim_order, at_stop, stops, at_restop>>

(* stop, lines 111-116: one iteration of the drain loop; line 118 when the *)
(* queue is empty.                                                         *)
stop_drain ==
  /\ UNCHANGED <<sampleVars, restartVars, stale>>
  /\ DM /\ engine_alive
  /\ m_pc = "drain"
  /\ IF download_queue = <<>>
       THEN /\ m_pc' = "join"
            /\ UNCHANGED <<download_queue, status_queue>>
       ELSE /\ download_queue' = Tail(download_queue)
            /\ status_queue' = log(status_queue, Head(download_queue), "Cancelled")
            /\ UNCHANGED m_pc
  /\ UNCHANGED <<vpnVars, pcVars, dvVars, pqVars>>
  /\ UNCHANGED stopHist
  /\ UNCHANGED <<component, engine_alive, stop_event, executor_shutdown,
                 work_queue, fut, current_futures, current_processes, n_added, m_task, s_snap, s_visited, s_items, d_pc, d_futures,
                 d_task, w_pc, claim_order, at_stop>>

(* stop, line 118: self.join(timeout=5) returns when the dispatcher thread *)
(* has ended or when the timeout has elapsed.                              *)
stop_join ==
  /\ UNCHANGED <<sampleVars, restartVars, stale>>
  /\ DM /\ engine_alive
  /\ m_pc = "join"
  /\ m_pc' = "stopped"
  /\ UNCHANGED <<vpnVars, pcVars, dvVars, pqVars>>
  /\ UNCHANGED stopHist
  /\ UNCHANGED <<component, engine_alive, download_queue, status_queue,
                 stop_event, executor_shutdown, work_queue, fut,
                 current_futures, current_processes, n_added, m_task,
                 s_snap, s_visited, s_items, d_pc, d_futures, d_task, w_pc,
                 claim_order, at_stop>>


(* run, lines 26-27: `while not self.stop_event.is_set()`, futures = set(). *)
run_check ==
  /\ UNCHANGED <<sampleVars, restartVars>>
  /\ DM /\ engine_alive
  /\ d_pc = "check"
  /\ stale' = IF component = "dm3" /\ ~stop_event
                THEN {t \in current_futures : fut[t] \in FutureDone}
                ELSE stale
  /\ IF stop_event
       THEN d_pc' = "done" /\ UNCHANGED d_futures
       ELSE d_pc' = "fill" /\ d_futures' = {}
  /\ UNCHANGED <<vpnVars, pcVars, dvVars, pqVars>>
  /\ UNCHANGED stopHist
  /\ UNCHANGED <<component, engine_alive, download_queue, status_queue,
                 stop_event, executor_shutdown, work_queue, fut,
                 current_futures, current_processes, n_added, m_pc,
                 m_task, s_snap, s_visited, s_items, d_task, w_pc,
                 claim_order, at_stop>>

(* run, lines 28-30, 34-37 and 41-43: the inner loop's test and            *)
(* self.download_queue.get(block=False); on queue.Empty or with the local  *)
(* set full the loop ends and the `if futures` test follows.  With no      *)
(* future started, self.stop_event.wait(timeout=1) returns when the event  *)
(* is set or the timeout has elapsed, and the outer loop's test is next.   *)
run_get ==
  /\ UNCHANGED <<sampleVars, restartVars, stale>>
  /\ DM /\ engine_alive
  /\ d_pc = "fill"
  /\ IF Cardinality(d_futures) < max_concurrent_downloads /\ download_queue # <<>>
       THEN /\ d_task' = Head(download_queue)
            /\ download_queue' = Tail(download_queue)
            /\ claim_order' = Append(claim_order, Head(download_queue))
            /\ d_pc' = "submit"
       ELSE /\ d_pc' = IF d_futures # {} THEN "wait" ELSE "check"
            /\ UNCHANGED <<d_task, download_queue, claim_order>>
  /\ UNCHANGED <<vpnVars, pcVars, dvVars, pqVars>>
  /\ UNCHANGED stopHist
  /\ UNCHANGED <<component, engine_alive, status_queue, stop_event,
                 executor_shutdown, work_queue, fut, current_futures,
                 current_processes, n_added, m_pc, m_task, s_snap,
                 s_visited, s_items, d_futures, w_pc, at_stop>>

(* run, line 31: self.executor.submit(self.download_video, url).  After    *)
(* shutdown submit raises RuntimeError, which nothing in run catches: the  *)
(* dispatcher thread ends.                                                 *)
run_submit ==
  /\ UNCHANGED <<sampleVars, restartVars, stale>>
  /\ DM /\ engine_alive
  /\ d_pc = "submit"
  /\ IF executor_shutdown
       THEN /\ d_pc' = "crashed"
            /\ UNCHANGED <<fut, work_queue>>
       ELSE /\ fut' = [fut EXCEPT ![d_task] = "pending"]
            /\ work_queue' = Append(work_queue, d_task)
            /\ d_pc' = "track"
  /\ UNCHANGED <<vpnVars, pcVars, dvVars, pqVars>>
  /\ UNCHANGED stopHist
  /\ UNCHANGED <<component, engine_alive, download_queue, status_queue,
                 stop_event, executor_shutdown, current_futures,
                 current_processes, n_added, m_pc, m_task, s_snap,
                 s_visited, s_items, d_futures, d_task, w_pc, claim_order, at_stop>>

(* run, lines 32-33: futures.add(future); self.current_futures.add(future). *)
run_track ==
  /\ UNCHANGED <<sampleVars, restartVars, stale>>
  /\ DM /\ engine_alive
  /\ d_pc = "track"
  /\ d_futures' = d_futures \cup {d_task}
  /\ current_futures' = current_futures \cup {d_task}
  /\ d_task' = 0
  /\ d_pc' = "fill"
  /\ UNCHANGED <<vpnVars, pcVars, dvVars, pqVars>>
  /\ UNCHANGED stopHist
  /\ UNCHANGED <<component, engine_alive, download_queue, status_queue,
                 stop_event, executor_shutdown, work_queue, fut,
                 current_processes, n_added, m_pc, m_task, s_snap,
                 s_visited, s_items, w_pc, claim_order, at_stop>>

(* run, lines 38-40: wait(futures, return_when=FIRST_COMPLETED) returns    *)
(* once a future of the local set is finished or cancelled-and-notified;   *)
(* every future done by then is removed from current_futures.              *)
run_wait ==
  /\ UNCHANGED <<sampleVars, restartVars, stale>>
  /\ DM /\ engine_alive
  /\ d_pc = "wait"
  /\ \E f \in d_futures : fut[f] \in FutureDone
  /\ current_futures' = current_futures \ {f \in d_futures : fut[f] \in FutureDone}
  /\ d_pc' = "check"
  /\ UNCHANGED <<vpnVars, pcVars, dvVars, pqVars>>
  /\ UNCHANGED stopHist
  /\ UNCHANGED <<component, engine_alive, download_queue, status_queue,
                 stop_event, executor_shutdown, work_queue, fut,
                 current_processes, n_added, m_pc, m_task, s_snap,
                 s_visited, s_items, d_futures, d_task, w_pc, claim_order, at_stop>>

(* A pool thread takes the oldest work item; a cancelled future is only    *)
(* marked notified, any other starts running download_video.  At most      *)
(* ExecutorMaxWorkers threads exist and each runs one item at a time.      *)
worker_take ==
  /\ UNCHANGED <<sampleVars, restartVars, stale>>
  /\ DM /\ engine_alive
  /\ work_queue # <<>>
  /\ Cardinality(Running) < ExecutorMaxWorkers
  /\ LET t == Head(work_queue) IN
       /\ work_queue' = Tail(work_queue)
       /\ IF fut[t] = "cancelled"
            THEN /\ fut' = [fut EXCEPT ![t] = "cancelled_notified"]
                 /\ UNCHANGED w_pc
            ELSE /\ fut' = [fut EXCEPT ![t] = "running"]
                 /\ w_pc' = [w_pc EXCEPT ![t] = "log_downloading"]
  /\ UNCHANGED <<vpnVars, pcVars, dvVars, pqVars>>
  /\ UNCHANGED stopHist
  /\ UNCHANGED <<component, engine_alive, download_queue, status_queue,
                 stop_event, executor_shutdown, current_futures,
                 current_processes, n_added, m_pc, m_task, s_snap,
                 s_visited, s_items, d_pc, d_futures, d_task, claim_order, at_stop>>

(* download_video, one step of the worker running it for `url`:            *)
(*   line 56      log 'Downloading'                                        *)
(*   line 57      current_processes[url] = os.getpid()                     *)
(*   lines 58-61  extract_info and download return, then                   *)
(*                del current_processes[url] (KeyError without the key);   *)
(*                or they raise                                            *)
(*   lines 62-63  test of the stop event, then log 'Completed'             *)
(*   lines 65-67  except: test of the stop event, then log 'Error: ...'    *)
(*   lines 69-71  finally: remove the key if present; the future finishes. *)
(* A test that finds the event set is followed by the finally clause in    *)
(* the same step (the event is never cleared).                             *)
download_video(url) ==
  /\ UNCHANGED <<sampleVars, restartVars, stale>>
  /\ DM /\ engine_alive
  /\ fut[url] = "running"
  /\ LET removed == [u \in DOMAIN current_processes \ {url} |-> current_processes[u]]
         finally == /\ current_processes' = removed
                    /\ fut' = [fut EXCEPT ![url] = "finished"]
                    /\ w_pc' = [w_pc EXCEPT ![url] = "returned"]
         except  == IF stop_event
                      THEN finally
                      ELSE /\ w_pc' = [w_pc EXCEPT ![url] = "log_error"]
                           /\ UNCHANGED <<current_processes, fut>>
     IN
     \/ /\ w_pc[url] = "log_downloading"
        /\ status_queue' = log(status_queue, url, "Downloading")
        /\ w_pc' = [w_pc EXCEPT ![url] = "register"]
        /\ UNCHANGED <<current_processes, fut>>
     \/ /\ w_pc[url] = "register"
        /\ current_processes' = [u \in DOMAIN current_processes \cup {url} |->
                                   IF u = url THEN EnginePid ELSE current_processes[u]]
        /\ w_pc' = [w_pc EXCEPT ![url] = "fetch"]
        /\ UNCHANGED <<status_queue, fut>>
     \/ /\ w_pc[url] = "fetch"
        /\ UNCHANGED status_queue
        /\ \/ IF url \in DOMAIN current_processes
                THEN /\ current_processes' = removed
                     /\ w_pc' = [w_pc EXCEPT ![url] = "check_stop"]
                     /\ UNCHANGED fut
                ELSE except
           \/ except
     \/ /\ w_pc[url] = "check_stop"
        /\ UNCHANGED status_queue
        /\ IF stop_event
             THEN finally
             ELSE /\ w_pc' = [w_pc EXCEPT ![url] = "log_completed"]
                  /\ UNCHANGED <<current_processes, fut>>
     \/ /\ w_pc[url] = "log_completed"
        /\ status_queue' = log(status_queue, url, "Completed")
        /\ w_pc' = [w_pc EXCEPT ![url] = "finally"]
        /\ UNCHANGED <<current_processes, fut>>
     \/ /\ w_pc[url] = "log_error"
        /\ status_queue' = log(status_queue, url, "Error")
        /\ w_pc' = [w_pc EXCEPT ![url] = "finally"]
        /\ UNCHANGED <<current_processes, fut>>
     \/ /\ w_pc[url] = "finally"
        /\ finally
        /\ UNCHANGED status_queue
  /\ UNCHANGED <<vpnVars, pcVars, dvVars, pqVars>>
  /\ UNCHANGED stopHist
  /\ UNCHANGED <<component, engine_alive, download_queue, stop_event,
                 executor_shutdown, work_queue, current_futures,
                 n_added, m_pc, m_task, s_snap, s_visited, s_items, d_pc,
                 d_futures, d_task, claim_order, at_stop>>

NextDM ==
  \/ \E url \in AllTasks : add_download(url)
  \/ add_download_log
  \/ stop_set
  \/ stop_cancel
  \/ stop_terminate
  \/ stop_drain
  \/ stop_join
  \/ run_check
  \/ run_get
  \/ run_submit
  \/ run_track
  \/ run_wait
  \/ worker_take
  \/ \E url \in AllTasks : download_video(url)

(* --------------------------- VPNManager ------------------------------- *)

(* VPNManager.__init__: download_count = 0; switch_after and               *)
(* speed_threshold come from the configuration.  The whole range is       *)
(* explored on the manager alone; under start_downloads the threshold is 1 *)
(* (speeds below, at and above it occur) and the cadence is at most the    *)
(* length of a links file; with no VPNManager the values are fixed.        *)
InitVPN ==
  /\ switch_after \in IF component = "vpn" THEN 1..MaxSwitchAfter
                     ELSE IF component = "ytdlp" THEN 1..MaxLinks
                     ELSE IF component = "orch" THEN 1..OrchLinks ELSE {1}
  /\ speed_threshold \in IF component = "vpn" THEN Speeds
                        ELSE IF component \in {"ytdlp", "orch"} THEN {1} ELSE {0}
  /\ download_count = 0
  /\ vpn_calls = 0
  /\ last_call = [speed |-> 0, before |-> 0, result |-> FALSE]
  /\ sw_pc = "idle" /\ sw_calls = 0 /\ tool_log = <<>> /\ sw_result = "none"

(* should_switch resetting the count on every rotation, also one triggered *)
(* by the speed alone.                                                     *)
should_switch_reset_on_speed(count, current_speed) ==
  IF count + 1 >= switch_after \/ current_speed < speed_threshold
    THEN [download_count |-> 0, result |-> TRUE]
    ELSE [download_count |-> count + 1, result |-> FALSE]

(* should_switch with `>` for `>=` in the cadence test.                    *)
should_switch_gt(count, current_speed) ==
  IF count + 1 > switch_after
    THEN [download_count |-> 0, result |-> TRUE]
    ELSE [download_count |-> count + 1, result |-> current_speed < speed_threshold]

(* VPNManager.should_switch: the new download_count and the value returned. *)
should_switch(count, current_speed) ==
  IF count + 1 >= switch_after
    THEN [download_count |-> 0, result |-> TRUE]
    ELSE [download_count |-> count + 1, result |-> current_speed < speed_threshold]

(* A call of should_switch(current_speed) on the manager.                  *)
call_should_switch(current_speed) ==
  LET r == should_switch(download_count, current_speed) IN
    /\ download_count' = r.download_count
    /\ vpn_calls' = vpn_calls + 1
    /\ last_call' = [speed |-> current_speed, before |-> download_count,
                     result |-> r.result]
    /\ UNCHANGED <<switch_after, speed_threshold, swVars>>

vpn_should_switch(current_speed) ==
  /\ UNCHANGED <<sampleVars, restartVars, stale>>
  /\ component = "vpn"
  /\ vpn_calls < MaxCalls
  /\ call_should_switch(current_speed)
  /\ UNCHANGED <<component, engine_alive, dmVars, pcVars, dvVars, pqVars>>

(* ----------------- PerformanceControl and AutoYTDLP -------------------- *)

(* AutoYTDLP is explored twice: under "ytdlp" with no user interface, a    *)
(* rotation tool that works, MaxRuns direct calls of start_downloads on    *)
(* links files of at most MaxLinks lines and stop_downloads called from    *)
(* another thread; and under "orch" as run() drives it, with or without    *)
(* the user interface, a rotation tool that can fail, and a links file of  *)
(* at most OrchLinks lines.  The results the  *)
(* loop receives, its rotation decisions and the switch_server outcomes    *)
(* are recorded under "orch".                                              *)
YT == component \in {"ytdlp", "yt2", "orch"}
Direct == component \in {"ytdlp", "yt2"}
Orch == component = "orch"
PQ == component \in {"pq", "pq2"}
RunLimit == IF Orch THEN OrchRuns ELSE MaxRuns

(* Faults raised by the fetch capability or by the progress hook: the      *)
(* exception class, and whether str(e) contains 'Cancelling download'.     *)
(* Python's None.                                                          *)
None == "None"

NoFault == [class |-> "none", cancelling |-> FALSE]
CancelFault == [class |-> "DownloadError", cancelling |-> TRUE]
FetchFaults == {[class |-> "DownloadError", cancelling |-> FALSE],
                [class |-> "Exception", cancelling |-> FALSE]}

(* download_video, line 86: yt_dlp.YoutubeDL(ydl_opts) is constructed      *)
(* outside the try statement, so a fault of the construction leaves        *)
(* download_video; Escaped marks a call that ended by raising.             *)
ConstructionFault == [class |-> "Exception", cancelling |-> FALSE]
Escaped == "raised"

(* An except clause that does not recognise the cancellation fault.        *)
except_status_no_cancel(e) == "error"

(* download_video, lines 97-102: the result status of a caught fault.      *)
except_status(e) ==
  IF e.class = "DownloadError"
    THEN IF e.cancelling THEN "cancelled" ELSE "error"
    ELSE "error"

(* progress_hook, lines 107-108: the fault raised for a progress event     *)
(* (status 'downloading' or 'finished'), NoFault when it returns.          *)
progress_hook(status) ==
  IF stop_flag /\ status = "downloading" THEN CancelFault ELSE NoFault

(* add_to_queue: self.download_queue.append(url).                          *)
add_to_queue(queue, url) == Append(queue, url)

(* An archive lookup that never finds the identifier.                      *)
in_archive_never(video_id) == FALSE

(* download_video, line 91: video_id in self.download_archive.             *)
in_archive(video_id) == video_id \in download_archive

(* PerformanceControl.get_current_speed is called by start_downloads but   *)
(* defined nowhere in the sources: the speed of the most recent progress   *)
(* sample, any value a measurement can give.                               *)
get_current_speed == Speeds

(* PerformanceControl.download_video, one step of call x:                  *)
(*   "check"     lines 80-81: the stop flag test                           *)
(*   "open"      lines 86-87: self.current_ydl = ydl                       *)
(*   "extract"   lines 89-94: extract_info raises, or the archive lookup   *)
(*               skips the URL, or ydl.download is entered                 *)
(*   "transfer"  line 94: a 'downloading' progress event reaches the       *)
(*               progress hook; or the transfer ends, the 'finished' event *)
(*               reaches the hook and lines 95-96 add the identifier and   *)
(*               return 'success'; or the transfer fails                   *)
(*   "except"    lines 97-102                                              *)
(*   "finally"   lines 103-104: self.current_ydl = None, and the return.   *)
pc_download_video(x) ==
  /\ UNCHANGED <<sampleVars, restartVars, stale>>
  /\ YT \/ PQ
  /\ LET url == dv_url[x]
         goto(l) == dv_pc' = [dv_pc EXCEPT ![x] = l]
         return(status) == dv_result' = [dv_result EXCEPT ![x] = status]
         raise(e) == dv_exc' = [dv_exc EXCEPT ![x] = e]
     IN
     \/ /\ dv_pc[x] = "check"
        /\ IF stop_flag
             THEN return("stopped") /\ goto("returned")
             ELSE goto("open") /\ UNCHANGED dv_result
        /\ UNCHANGED <<current_ydl, download_archive, dv_exc, dv_fetched,
                       dv_hook_raised, dv_archived>>
     \/ /\ dv_pc[x] = "open"
        /\ \/ /\ current_ydl' = x
              /\ goto("extract")
              /\ UNCHANGED <<dv_exc, dv_result>>
           \/ /\ component = "pq2"
              /\ raise(ConstructionFault)
              /\ return(Escaped)
              /\ goto("returned")
              /\ UNCHANGED current_ydl
        /\ UNCHANGED <<download_archive, dv_fetched, dv_hook_raised,
                       dv_archived>>
     \/ /\ dv_pc[x] = "extract"
        /\ \/ /\ \E e \in FetchFaults : raise(e)
              /\ goto("except")
              /\ UNCHANGED <<dv_result, dv_fetched>>
           \/ /\ in_archive(VideoId(url))
              /\ return("skipped")
              /\ goto("finally")
              /\ UNCHANGED <<dv_exc, dv_fetched>>
           \/ /\ ~in_archive(VideoId(url))
              /\ dv_fetched' = [dv_fetched EXCEPT ![x] = TRUE]
              /\ goto("transfer")
              /\ UNCHANGED <<dv_exc, dv_result>>
        /\ UNCHANGED <<current_ydl, download_archive, dv_hook_raised, dv_archived>>
     \/ /\ dv_pc[x] = "transfer"
        /\ \/ /\ progress_hook("downloading") # NoFault
              /\ raise(progress_hook("downloading"))
              /\ dv_hook_raised' = [dv_hook_raised EXCEPT ![x] = TRUE]
              /\ goto("except")
              /\ UNCHANGED <<download_archive, dv_result, dv_archived>>
           \/ /\ progress_hook("finished") = NoFault
              /\ download_archive' = download_archive \cup {VideoId(url)}
              /\ dv_archived' = [dv_archived EXCEPT ![x] = TRUE]
              /\ return("success")
              /\ goto("finally")
              /\ UNCHANGED <<dv_exc, dv_hook_raised>>
           \/ /\ \E e \in FetchFaults : raise(e)
              /\ goto("except")
              /\ UNCHANGED <<download_archive, dv_result, dv_hook_raised, dv_archived>>
        /\ UNCHANGED <<current_ydl, dv_fetched>>
     \/ /\ dv_pc[x] = "except"
        /\ return(except_status(dv_exc[x]))
        /\ goto("finally")
        /\ UNCHANGED <<current_ydl, download_archive, dv_exc, dv_fetched,
                       dv_hook_raised, dv_archived>>
     \/ /\ dv_pc[x] = "finally"
        /\ current_ydl' = NoYdl
        /\ goto("returned")
        /\ UNCHANGED <<download_archive, dv_exc, dv_result, dv_fetched,
                       dv_hook_raised, dv_archived>>
  /\ UNCHANGED orchVars
  /\ UNCHANGED <<component, engine_alive, dmVars, vpnVars, pqVars, dv_url,
                 pc_download_queue, stop_flag, executor, is_downloading,
                 vpn_switch_needed, o_pc, current_url, runs, enqueued,
                 claimed, history, switches, k_pc>>

(* The state of call x when download_video is entered for `url`.           *)
enter_download_video(x, url) ==
  /\ dv_pc' = [dv_pc EXCEPT ![x] = "check"]
  /\ dv_url' = [dv_url EXCEPT ![x] = url]
  /\ dv_exc' = [dv_exc EXCEPT ![x] = NoFault]
  /\ dv_result' = [dv_result EXCEPT ![x] = "none"]
  /\ dv_fetched' = [dv_fetched EXCEPT ![x] = FALSE]
  /\ dv_hook_raised' = [dv_hook_raised EXCEPT ![x] = FALSE]
  /\ dv_archived' = [dv_archived EXCEPT ![x] = FALSE]

(* start_downloads, lines 46-47: add_to_queue for each URL of the list.    *)
RECURSIVE add_all(_, _)
add_all(queue, urls) ==
  IF urls = <<>> THEN queue
  ELSE add_all(add_to_queue(queue, Head(urls)), Tail(urls))

(* The contents the archive file can have when run() begins: no           *)
(* identifier, or the identifier of URL 1 left by an earlier run.  No      *)
(* statement of AutoYTDLP or of PerformanceControl.download_video calls    *)
(* load_download_archive or save_download_archive (lines 69-77), so the    *)
(* file is neither read nor written during a run.                          *)
ArchiveFiles == {{}, {VideoId(1)}}

(* The contents a links file of a run() can have.                          *)
OrchLinkLists == UNION {[1..n -> URLs] : n \in 0..OrchLinks}

(* The contents a links file can have when two threads call                *)
(* start_downloads.                                                        *)
RestartLinkLists == UNION {[1..n -> URLs] : n \in 0..RestartLinks}

(* load_url_list: the non-blank lines of the links file.  The file does    *)
(* not change during a run(); the direct calls explored under "ytdlp" may  *)
(* each find another file.                                                 *)
load_url_list == IF Orch THEN {links_file}
                 ELSE IF component = "yt2" THEN RestartLinkLists
                 ELSE LinkLists

(* load_url_list, lines 34-39: open() raises when the links file is        *)
(* missing or unreadable; the handler logs the error and the empty list is *)
(* returned.  Under run() the file may have been removed before any call.  *)
FileUnreadable == IF Orch THEN BOOLEAN ELSE {FALSE}
load_url_list_or_empty(unreadable) ==
  IF unreadable THEN {<<>>} ELSE load_url_list

(* The outcomes of a call of the rotation tool through subprocess.run in   *)
(* VPNManager.connect and VPNManager.disconnect: True ("ok"); False        *)
(* ("failed": the tool exits with an error, CalledProcessError is caught,  *)
(* or its output lacks the expected words); or an exception other than     *)
(* CalledProcessError leaves the method ("raised": FileNotFoundError when  *)
(* the tool is not installed).                                             *)
ToolOutcomes == {"ok", "failed", "raised"}

(* A switch_server that connects whatever disconnect() returned.           *)
connect_after_always(disconnected) == TRUE

(* switch_server, line 34: `if self.disconnect():` connect() is called     *)
(* only when disconnect() returned True.                                   *)
connect_after(disconnected) == disconnected = "ok"

(* switch_server, lines 34-37: how the call ends, from the outcomes of     *)
(* disconnect() and (if it is called) connect().                           *)
switch_server_outcome(disconnected, connected) ==
  IF disconnected = "raised" THEN "raised"
  ELSE IF connect_after(disconnected) THEN connected
  ELSE "failed"

(* VPNManager.switch_server: disconnect(), and if it returned True a pause *)
(* and connect(); False if either returned False.                          *)
switch_server ==
  IF Orch THEN {switch_server_outcome(d, c) : d, c \in ToolOutcomes}
  ELSE {"ok"}

(* A caller calls switch_server on the manager.                            *)
vpn_switch_server ==
  /\ UNCHANGED <<sampleVars, restartVars, stale>>
  /\ component = "vpn"
  /\ sw_pc = "idle"
  /\ sw_calls < MaxSwitches
  /\ sw_calls' = sw_calls + 1
  /\ tool_log' = <<>>
  /\ sw_result' = "none"
  /\ sw_pc' = "disconnect"
  /\ UNCHANGED <<switch_after, speed_threshold, download_count, vpn_calls,
                 last_call>>
  /\ UNCHANGED <<component, engine_alive, dmVars, pcVars, dvVars, pqVars>>

(* switch_server, line 34: self.disconnect() runs `expressvpn disconnect`  *)
(* (lines 22-30); the call ends here when it raised or returned False.     *)
vpn_switch_disconnect ==
  /\ UNCHANGED <<sampleVars, restartVars, stale>>
  /\ component = "vpn"
  /\ sw_pc = "disconnect"
  /\ \E d \in ToolOutcomes :
       /\ tool_log' = Append(tool_log, [cmd |-> "disconnect", outcome |-> d])
       /\ IF d # "raised" /\ connect_after(d)
            THEN sw_pc' = "connect" /\ UNCHANGED sw_result
            ELSE /\ sw_pc' = "idle"
                 /\ sw_result' = switch_server_outcome(d, d)
  /\ UNCHANGED <<switch_after, speed_threshold, download_count, vpn_calls,
                 last_call, sw_calls>>
  /\ UNCHANGED <<component, engine_alive, dmVars, pcVars, dvVars, pqVars>>

(* switch_server, lines 35-36: time.sleep(2), then self.connect() runs     *)
(* `expressvpn connect` (lines 12-20) and its value is returned.           *)
vpn_switch_connect ==
  /\ UNCHANGED <<sampleVars, restartVars, stale>>
  /\ component = "vpn"
  /\ sw_pc = "connect"
  /\ \E c \in ToolOutcomes :
       /\ tool_log' = Append(tool_log, [cmd |-> "connect", outcome |-> c])
       /\ sw_result' = switch_server_outcome(tool_log[1].outcome, c)
  /\ sw_pc' = "idle"
  /\ UNCHANGED <<switch_after, speed_threshold, download_count, vpn_calls,
                 last_call, sw_calls>>
  /\ UNCHANGED <<component, engine_alive, dmVars, pcVars, dvVars, pqVars>>

NextVPN ==
  \/ \E current_speed \in Speeds : vpn_should_switch(current_speed)
  \/ vpn_switch_server
  \/ vpn_switch_disconnect
  \/ vpn_switch_connect

(* TUIManager.add_download(url) (called at line 49, defined nowhere in     *)
(* the sources): a new entry for the URL, displayed as Queued.             *)
tui_add_download(list, url) == Append(list, [url |-> url, status |-> "Queued"])

RECURSIVE tui_add_all(_, _)
tui_add_all(list, urls) ==
  IF urls = <<>> THEN list
  ELSE tui_add_all(tui_add_download(list, Head(urls)), Tail(urls))

(* The text of a URL, as a sequence of characters: "h" stands for the      *)
(* scheme and host, the other characters for the path.  The text of URL 1  *)
(* occurs in the text of URL 3, and the text of URL 2 in that of URL 4.    *)
UrlText(url) ==
  CASE url = 1 -> <<"h", "a">>
    [] url = 2 -> <<"h", "b">>
    [] url = 3 -> <<"h", "a", "b">>
    [] OTHER   -> <<"h", "b", "a">>

(* TUIManager.__init__, lines 25-31, and update_download_status, line 80:  *)
(* self.status_emoji.get(status, '?').                                     *)
StatusEmoji == {"Queued", "Downloading", "Completed", "Error", "Cancelled"}
status_emoji(status) == IF status \in StatusEmoji THEN status ELSE "?"

(* update_download_status, line 81: status_text = f"{emoji} {url}", the    *)
(* text of a displayed row.                                                *)
status_text(url, status) == <<status_emoji(status), " ">> \o UrlText(url)

(* Python's `s in t` on strings.                                           *)
IsSubstring(s, t) ==
  \E k \in 0..(Len(t) - Len(s)) : SubSeq(t, k + 1, k + Len(s)) = s

(* update_download_status, line 83: url in widget.original_widget.text.    *)
row_matches(url, row) ==
  IsSubstring(UrlText(url), status_text(row.url, row.status))

(* TUIManager.update_download_status: the first entry whose text contains  *)
(* the URL is replaced by one with the new status; with no such entry one  *)
(* is appended.                                                            *)
update_download_status(list, url, status) ==
  LET hits == {i \in DOMAIN list : row_matches(url, list[i])} IN
    IF hits = {}
      THEN Append(list, [url |-> url, status |-> status])
      ELSE LET i == CHOOSE k \in hits : \A j \in hits : k <= j
           IN [list EXCEPT ![i] = [url |-> url, status |-> status]]

(* str(e) of a fault: its message.                                         *)
str(e) == IF e.cancelling THEN "Cancelling download" ELSE "download failed"

(* A download_video that reports the message of every fault it caught.     *)
result_error_of_any_fault(status, e) ==
  IF e.class # "none" THEN str(e) ELSE "none"

(* An error result without its message.                                    *)
result_error_none(status, e) == "none"

(* download_video, lines 99-102: result['error'] = str(e) of an 'error'    *)
(* result; the other results have no such key.                             *)
result_error(status, e) == IF status = "error" THEN str(e) ELSE "none"

(* A caller calls update_download_status on a TUIManager whose list is     *)
(* the one earlier calls have left.                                        *)
tui_update_download_status(url, status) ==
  /\ UNCHANGED <<sampleVars, restartVars, stale>>
  /\ component = "tui"
  /\ Len(ui_reports) < MaxTuiCalls
  /\ download_list' = update_download_status(download_list, url, status)
  /\ ui_reports' = Append(ui_reports, [url |-> url, status |-> status])
  /\ UNCHANGED <<component, engine_alive, dmVars, vpnVars, dvVars, pqVars,
                 pc_download_queue, download_archive, stop_flag, current_ydl,
                 executor, is_downloading, vpn_switch_needed, o_pc,
                 current_url, runs, enqueued, claimed, history, switches,
                 k_pc, use_tui, links_file, archive_file, shown_switched,
                 outcomes, triggers, switch_log, o_exit, r_pc, disconnects>>

NextTUI ==
  \E url \in TuiUrls, status \in StatusEmoji :
    tui_update_download_status(url, status)

(* start_downloads, lines 66-81: the status reported to the user interface *)
(* for a result ("none": no update_download_status call).                  *)
reported_status(status) ==
  IF status = "success" THEN "Completed"
  ELSE IF status = "error" THEN "Failed"
  ELSE "none"

(* An except clause that catches the download faults only.                 *)
start_downloads_except_download_error(exc) == exc = "DownloadError"

(* start_downloads, line 82: `except Exception` catches every exception    *)
(* raised in the loop.                                                     *)
start_downloads_except(exc) == TRUE

(* start_downloads, lines 42-49: the is_downloading guard, the links file  *)
(* is read and its URLs are enqueued (and added to the display).  Under    *)
(* run() it is called by run_cli: once without the user interface, on each *)
(* 's' key with it.                                                        *)
start_downloads ==
  /\ UNCHANGED <<sampleVars, stale, b_pc>>
  /\ stops_at_start' = IF component = "yt2" /\ ~is_downloading
                        THEN stop_flag /\ k_pc = "idle"
                        ELSE stops_at_start
  /\ stop_since_start' = IF component = "yt2" /\ ~is_downloading THEN FALSE
                         ELSE stop_since_start
  /\ YT
  /\ Orch => /\ r_pc = "cli" /\ (use_tui \/ runs = 0)
             /\ Len(enqueued) + Len(links_file) <= OrchEnqueued
  /\ o_pc = "idle"
  /\ runs < RunLimit
  /\ runs' = runs + 1
  /\ IF is_downloading
       THEN /\ o_exit' = "returned"
            /\ UNCHANGED <<is_downloading, pc_download_queue, enqueued, o_pc,
                           download_list, file_missing>>
       ELSE \E unreadable \in FileUnreadable :
            \E urls \in load_url_list_or_empty(unreadable) :
              /\ file_missing' = unreadable
              /\ is_downloading' = TRUE
              /\ pc_download_queue' = add_all(pc_download_queue, urls)
              /\ enqueued' = enqueued \o urls
              /\ download_list' = IF use_tui THEN tui_add_all(download_list, urls)
                                  ELSE download_list
              /\ o_pc' = "loop"
              /\ o_exit' = "none"
  /\ UNCHANGED <<component, engine_alive, dmVars, vpnVars, dvVars, pqVars,
                 download_archive, stop_flag, current_ydl, executor,
                 vpn_switch_needed, current_url, claimed, history, switches,
                 k_pc, use_tui, links_file, archive_file, ui_reports, shown_switched, outcomes,
                 triggers, switch_log, r_pc, disconnects>>

(* start_downloads, lines 52-60 and 82-87: the loop test; with the queue   *)
(* empty the finally clause clears is_downloading and the call returns;    *)
(* otherwise a pending rotation is performed (an exception leaving         *)
(* switch_server ends the loop: lines 82-87), the head of the queue is     *)
(* popped and download_video is entered.                                   *)
start_downloads_loop ==
  /\ UNCHANGED <<sampleVars, restartVars, stale>>
  /\ YT
  /\ o_pc = "loop"
  /\ LET take ==
           /\ current_url' = Head(pc_download_queue)
           /\ pc_download_queue' = Tail(pc_download_queue)
           /\ claimed' = Append(claimed, Head(pc_download_queue))
           /\ enter_download_video(Inline, Head(pc_download_queue))
           /\ o_pc' = "download"
           /\ UNCHANGED <<is_downloading, o_exit>>
     IN
     IF pc_download_queue = <<>>
       THEN /\ is_downloading' = FALSE
            /\ o_pc' = "idle"
            /\ o_exit' = "returned"
            /\ UNCHANGED <<pc_download_queue, vpn_switch_needed, switches,
                           current_url, claimed, dvVars, shown_switched,
                           triggers, switch_log>>
       ELSE IF vpn_switch_needed
         THEN \E outcome \in switch_server :
                /\ switches' = switches + 1
                /\ switch_log' =
                     IF Orch
                       THEN Append(switch_log, [outcome |-> outcome,
                                                triggers |-> triggers])
                       ELSE switch_log
                /\ triggers' = 0
                /\ IF outcome = "raised"
                     THEN /\ o_exit' = IF start_downloads_except("OSError")
                                         THEN "returned" ELSE "propagated"
                          /\ is_downloading' = FALSE
                          /\ o_pc' = "idle"
                          /\ UNCHANGED <<pc_download_queue, vpn_switch_needed,
                                         current_url, claimed, dvVars,
                                         shown_switched>>
                     ELSE /\ vpn_switch_needed' = FALSE
                          /\ shown_switched' = IF use_tui THEN shown_switched + 1
                                               ELSE shown_switched
                          /\ take
         ELSE /\ take
              /\ UNCHANGED <<vpn_switch_needed, switches, shown_switched,
                             triggers, switch_log>>
  /\ UNCHANGED <<component, engine_alive, dmVars, vpnVars, pqVars,
                 download_archive, stop_flag, current_ydl, executor, runs,
                 enqueued, history, k_pc, use_tui, links_file, archive_file, download_list,
                 ui_reports,
                 outcomes, r_pc, disconnects>>

(* start_downloads, lines 60-81: download_video has returned; the speed is *)
(* read, should_switch is evaluated and the result is reported.            *)
start_downloads_result ==
  /\ UNCHANGED <<sampleVars, restartVars, stale>>
  /\ YT
  /\ o_pc = "download"
  /\ dv_pc[Inline] = "returned"
  /\ \E current_speed \in get_current_speed :
       LET r == should_switch(download_count, current_speed) IN
         /\ download_count' = r.download_count
         /\ vpn_switch_needed' = (vpn_switch_needed \/ r.result)
         /\ triggers' = IF Orch /\ r.result THEN triggers + 1 ELSE triggers
         /\ outcomes' =
              IF Orch
                THEN Append(outcomes,
                            [url |-> dv_url[Inline],
                             status |-> dv_result[Inline],
                             error |-> result_error(dv_result[Inline], dv_exc[Inline]),
                             trigger |-> r.result])
                ELSE outcomes
  /\ vpn_calls' = IF Orch THEN vpn_calls + 1 ELSE vpn_calls
  /\ UNCHANGED <<switch_after, speed_threshold, last_call, swVars>>
  /\ history' = Append(history, [url |-> dv_url[Inline],
                                 status |-> dv_result[Inline],
                                 fetched |-> dv_fetched[Inline]])
  /\ LET status == reported_status(dv_result[Inline]) IN
       IF use_tui /\ status # "none"
         THEN /\ download_list' = update_download_status(download_list,
                                                         dv_url[Inline], status)
              /\ ui_reports' = Append(ui_reports, [url |-> dv_url[Inline],
                                                   status |-> status])
         ELSE UNCHANGED <<download_list, ui_reports>>
  /\ dv_pc' = [dv_pc EXCEPT ![Inline] = "none"]
  /\ o_pc' = "loop"
  /\ UNCHANGED <<component, engine_alive, dmVars, pqVars, pc_download_queue,
                 download_archive, stop_flag, current_ydl, executor,
                 is_downloading, current_url, runs, enqueued, claimed,
                 switches, k_pc, dv_url, dv_exc, dv_result, dv_fetched,
                 dv_hook_raised, dv_archived, use_tui, links_file, archive_file, shown_switched,
                 switch_log, o_exit, r_pc, disconnects>>

(* run, line 103: self.vpn_manager.connect().  Its value is not used; an   *)
(* exception leaving it is handled at lines 105-106 and run_cli is not     *)
(* called.                                                                 *)
run_connect ==
  /\ UNCHANGED <<sampleVars, restartVars, stale>>
  /\ Orch
  /\ r_pc = "init"
  /\ \E outcome \in ToolOutcomes :
       r_pc' = IF outcome = "raised" THEN "finally" ELSE "cli"
  /\ UNCHANGED <<component, engine_alive, dmVars, vpnVars, dvVars, pqVars,
                 pc_download_queue, download_archive, stop_flag, current_ydl,
                 executor, is_downloading, vpn_switch_needed, o_pc,
                 current_url, runs, enqueued, claimed, history, switches,
                 k_pc, use_tui, links_file, archive_file, download_list, ui_reports,
                 shown_switched,
                 outcomes, triggers, switch_log, o_exit, disconnects>>

(* run, lines 104-106: run_cli returns (start_downloads has returned, or   *)
(* the user has left the interface), or the exception that left            *)
(* start_downloads is handled by error_handler.handle_error.               *)
run_cli_end ==
  /\ UNCHANGED <<sampleVars, restartVars, stale>>
  /\ Orch
  /\ r_pc = "cli"
  /\ o_pc = "idle"
  /\ use_tui \/ runs = 1
  /\ r_pc' = "finally"
  /\ UNCHANGED <<component, engine_alive, dmVars, vpnVars, dvVars, pqVars,
                 pc_download_queue, download_archive, stop_flag, current_ydl,
                 executor, is_downloading, vpn_switch_needed, o_pc,
                 current_url, runs, enqueued, claimed, history, switches,
                 k_pc, use_tui, links_file, archive_file, download_list, ui_reports,
                 shown_switched,
                 outcomes, triggers, switch_log, o_exit, disconnects>>

(* run, lines 107-108: finally: self.vpn_manager.disconnect(); an          *)
(* exception leaving disconnect leaves run.                                *)
run_finally ==
  /\ UNCHANGED <<sampleVars, restartVars, stale>>
  /\ Orch
  /\ r_pc = "finally"
  /\ disconnects' = disconnects + 1
  /\ \E outcome \in ToolOutcomes :
       r_pc' = IF outcome = "raised" THEN "raised" ELSE "returned"
  /\ UNCHANGED <<component, engine_alive, dmVars, vpnVars, dvVars, pqVars,
                 pc_download_queue, download_archive, stop_flag, current_ydl,
                 executor, is_downloading, vpn_switch_needed, o_pc,
                 current_url, runs, enqueued, claimed, history, switches,
                 k_pc, use_tui, links_file, archive_file, download_list, ui_reports,
                 shown_switched,
                 outcomes, triggers, switch_log, o_exit>>

(* stop_downloads, lines 90-91: the is_downloading guard.                  *)
stop_downloads ==
  /\ UNCHANGED <<sampleVars, stale, b_pc, stops_at_start, file_missing>>
  /\ stop_since_start' = IF component = "yt2" /\ is_downloading THEN TRUE
                         ELSE stop_since_start
  /\ Direct
  /\ k_pc = "idle"
  /\ k_pc' = IF is_downloading THEN "stop_queue" ELSE "idle"
  /\ UNCHANGED orchVars
  /\ UNCHANGED <<component, engine_alive, dmVars, vpnVars, dvVars, pqVars,
                 pc_download_queue, download_archive, stop_flag, current_ydl,
                 executor, is_downloading, vpn_switch_needed, o_pc,
                 current_url, runs, enqueued, claimed, history, switches>>

(* PerformanceControl.stop_queue, called by stop_downloads or directly.    *)
(* With an executor, get_subprocess_pids reads thread._thread.ident of     *)
(* each pool thread: threading.Thread has no attribute _thread, so with a  *)
(* pool thread present AttributeError is raised before the shutdown.       *)
stop_queue ==
  /\ UNCHANGED <<sampleVars, restartVars, stale>>
  /\ \/ Direct /\ k_pc = "stop_queue"
     \/ PQ /\ k_pc = "idle"
  /\ stop_flag' = TRUE
  /\ pending_at_stop' = IF component = "pq2" THEN {q_work[i] : i \in DOMAIN q_work}
                        ELSE pending_at_stop
  /\ IF executor = "None"
       THEN /\ k_pc' = IF Direct THEN "clear" ELSE "returned"
            /\ UNCHANGED executor
       ELSE IF q_next > FirstOf(runs)
         THEN k_pc' = "raised" /\ UNCHANGED executor
         ELSE /\ executor' = "shutdown"
              /\ k_pc' = IF Direct THEN "clear" ELSE "returned"
  /\ UNCHANGED orchVars
  /\ UNCHANGED <<q_pc, q_next, q_work, q_yielded, results, pc_max_workers>>
  /\ UNCHANGED <<component, engine_alive, dmVars, vpnVars, dvVars,
                 pc_download_queue, download_archive, current_ydl,
                 is_downloading, vpn_switch_needed, o_pc, current_url, runs,
                 enqueued, claimed, history, switches>>

(* stop_downloads, line 93: self.is_downloading = False.                   *)
stop_downloads_clear ==
  /\ UNCHANGED <<sampleVars, restartVars, stale>>
  /\ Direct
  /\ k_pc = "clear"
  /\ is_downloading' = FALSE
  /\ k_pc' = "idle"
  /\ UNCHANGED orchVars
  /\ UNCHANGED <<component, engine_alive, dmVars, vpnVars, dvVars, pqVars,
                 pc_download_queue, download_archive, stop_flag, current_ydl,
                 executor, vpn_switch_needed, o_pc, current_url, runs,
                 enqueued, claimed, history, switches>>

(* ThreadPoolExecutor(max_workers=self.max_concurrent_downloads) of       *)
(* process_queue, line 118: one pool for each call of process_queue.       *)
PoolMaxWorkers == pc_max_workers

(* The download_video calls of the pools that are in progress.             *)
PoolRunning == {x \in Exec \ {Inline} : dv_pc[x] \notin {"none", "returned"}}

(* A caller of PerformanceControl enqueues a URL (add_to_queue).           *)
pq_add_to_queue(url) ==
  /\ UNCHANGED <<sampleVars, restartVars, stale>>
  /\ PQ
  /\ q_pc \in {"idle", "returned", "raised"}
  /\ component = "pq2" => runs = 0 /\ url = Len(pc_download_queue) + 1
  /\ Len(pc_download_queue) < MaxQueue
  /\ pc_download_queue' = add_to_queue(pc_download_queue, url)
  /\ enqueued' = Append(enqueued, url)
  /\ UNCHANGED orchVars
  /\ UNCHANGED <<component, engine_alive, dmVars, vpnVars, dvVars, pqVars,
                 download_archive, stop_flag, current_ydl, executor,
                 is_downloading, vpn_switch_needed, o_pc, current_url, runs,
                 claimed, history, switches, k_pc>>

(* process_queue, lines 116-118: called when no call of it is in progress  *)
(* (a first call, or one after an earlier call returned or raised).        *)
process_queue ==
  /\ UNCHANGED <<sampleVars, restartVars, stale>>
  /\ PQ
  /\ q_pc \in {"idle", "returned", "raised"}
  /\ runs < MaxRuns
  /\ runs' = runs + 1
  /\ stop_flag' = FALSE
  /\ results' = <<>>
  /\ executor' = "open"
  /\ q_next' = FirstOf(runs + 1)
  /\ q_yielded' = {}
  /\ q_pc' = "submit"
  /\ UNCHANGED orchVars
  /\ UNCHANGED <<component, engine_alive, dmVars, vpnVars, dvVars,
                 pc_download_queue, download_archive, current_ydl,
                 is_downloading, vpn_switch_needed, o_pc, current_url,
                 enqueued, claimed, history, switches, k_pc, q_work,
                 pc_max_workers, pending_at_stop>>

(* process_queue, line 120: the next executor.submit of the comprehension  *)
(* over self.download_queue (RuntimeError once the executor is shut down:  *)
(* the finally clause is next and the error leaves process_queue), or its  *)
(* end.                                                                    *)
process_queue_submit ==
  /\ UNCHANGED <<sampleVars, restartVars, stale>>
  /\ PQ
  /\ q_pc = "submit"
  /\ LET i == q_next - FirstOf(runs) + 1 IN
     IF i > Len(pc_download_queue)
       THEN /\ q_pc' = "collect"
            /\ UNCHANGED <<q_next, q_work, dvVars>>
       ELSE IF executor = "shutdown"
         THEN /\ q_pc' = "raise"
              /\ UNCHANGED <<q_next, q_work, dvVars>>
         ELSE /\ q_work' = Append(q_work, q_next)
              /\ dv_url' = [dv_url EXCEPT ![q_next] = pc_download_queue[i]]
              /\ q_next' = q_next + 1
              /\ UNCHANGED <<q_pc, dv_pc, dv_exc, dv_result, dv_fetched,
                             dv_hook_raised, dv_archived>>
  /\ UNCHANGED <<component, engine_alive, dmVars, vpnVars, pcVars, q_yielded,
                 results, pc_max_workers, pending_at_stop>>

(* A thread of the pool of process_queue call r takes that pool's oldest   *)
(* work item and enters download_video.  shutdown(wait=False) leaves the   *)
(* threads of a pool running until its work queue is empty.                *)
pool_take ==
  /\ UNCHANGED <<sampleVars, restartVars, stale>>
  /\ PQ
  /\ \E r \in 1..runs :
       LET items == SelectSeq(q_work, LAMBDA x : PoolOf(x) = r)
           busy == {x \in PoolRunning : PoolOf(x) = r}
       IN /\ items # <<>>
          /\ Cardinality(busy) < PoolMaxWorkers
          /\ q_work' = SelectSeq(q_work, LAMBDA x : x # Head(items))
          /\ enter_download_video(Head(items), dv_url[Head(items)])
  /\ UNCHANGED <<component, engine_alive, dmVars, vpnVars, pcVars, q_pc,
                 q_next, q_yielded, results, pc_max_workers,
                 pending_at_stop>>

(* A collection loop that takes the outcome of a future as it is.          *)
future_result_unguarded(outcome) == outcome

(* process_queue, lines 123-127: future.result() gives the value the call  *)
(* returned; when the call raised, the except clause makes an 'error'      *)
(* result for the URL.                                                     *)
future_result(outcome) == IF outcome = Escaped THEN "error" ELSE outcome

(* process_queue, lines 124-127: the 'error' entry of the result appended  *)
(* for a future: that of the value download_video returned, or str(e) of   *)
(* the exception the call raised ("none": the result has no such key).     *)
future_error(outcome, e) ==
  IF outcome = Escaped THEN str(e) ELSE result_error(outcome, e)

(* process_queue, lines 121-130: as_completed yields a finished future,    *)
(* its result is appended, and the stop flag is tested; the loop ends      *)
(* when every future of this call has been yielded.                        *)
process_queue_collect ==
  /\ UNCHANGED <<sampleVars, restartVars, stale>>
  /\ PQ
  /\ q_pc = "collect"
  /\ LET mine == FirstOf(runs)..(q_next - 1) IN
     IF q_yielded = mine
       THEN /\ q_pc' = "finally"
            /\ UNCHANGED <<q_yielded, results>>
       ELSE \E x \in mine \ q_yielded :
              /\ dv_pc[x] = "returned"
              /\ q_yielded' = q_yielded \cup {x}
              /\ results' = Append(results,
                   [url |-> dv_url[x],
                    status |-> future_result(dv_result[x]),
                    error |-> future_error(dv_result[x], dv_exc[x])])
              /\ q_pc' = IF stop_flag THEN "finally" ELSE "collect"
  /\ UNCHANGED <<component, engine_alive, dmVars, vpnVars, pcVars, dvVars,
                 q_next, q_work, pc_max_workers, pending_at_stop>>

(* process_queue, lines 131-135: self.executor.shutdown(wait=False),       *)
(* self.executor = None, then the return (or the pending error).           *)
process_queue_finally ==
  /\ UNCHANGED <<sampleVars, restartVars, stale>>
  /\ PQ
  /\ q_pc \in {"finally", "raise"}
  /\ executor' = "None"
  /\ q_pc' = IF q_pc = "raise" THEN "raised" ELSE "returned"
  /\ UNCHANGED orchVars
  /\ UNCHANGED <<component, engine_alive, dmVars, vpnVars, dvVars,
                 pc_download_queue, download_archive, stop_flag, current_ydl,
                 is_downloading, vpn_switch_needed, o_pc, current_url, runs,
                 enqueued, claimed, history, switches, k_pc, q_next, q_work,
                 q_yielded, results, pc_max_workers, pending_at_stop>>

(* PerformanceControl.__init__ and AutoYTDLP.__init__.                     *)
InitPC ==
  /\ pc_download_queue = <<>>
  /\ download_archive = {}
  /\ stop_flag = FALSE
  /\ current_ydl = NoYdl
  /\ executor = "None"
  /\ is_downloading = FALSE
  /\ vpn_switch_needed = FALSE
  /\ o_pc = "idle" /\ current_url = 0 /\ runs = 0
  /\ enqueued = <<>> /\ claimed = <<>> /\ history = <<>>
  /\ switches = 0
  /\ k_pc = "idle"
  /\ use_tui \in IF component = "orch" THEN BOOLEAN ELSE {FALSE}
  /\ links_file \in IF component = "orch" THEN OrchLinkLists ELSE {<<>>}
  /\ archive_file \in IF component = "orch" THEN ArchiveFiles ELSE {{}}
  /\ download_list = <<>> /\ ui_reports = <<>> /\ shown_switched = 0
  /\ outcomes = <<>> /\ triggers = 0 /\ switch_log = <<>>
  /\ o_exit = "none"
  /\ r_pc = "init" /\ disconnects = 0
  /\ dv_pc = [x \in Exec |-> "none"]
  /\ dv_url = [x \in Exec |-> 0]
  /\ dv_exc = [x \in Exec |-> NoFault]
  /\ dv_result = [x \in Exec |-> "none"]
  /\ dv_fetched = [x \in Exec |-> FALSE]
  /\ dv_hook_raised = [x \in Exec |-> FALSE]
  /\ dv_archived = [x \in Exec |-> FALSE]
  /\ q_pc = "idle" /\ q_next = 1
  /\ q_work = <<>>
  /\ q_yielded = {}
  /\ results = <<>>
  /\ pc_max_workers \in IF component = "pq2"
                          THEN 1..max_concurrent_downloads
                          ELSE {max_concurrent_downloads}
  /\ pending_at_stop = {}
  /\ start_time = None /\ downloaded_bytes = 0
  /\ now = 0 /\ hook_events = <<>>
  /\ b_pc = "idle"
  /\ stops_at_start = FALSE /\ stop_since_start = FALSE
  /\ file_missing = FALSE

Init ==
  /\ component \in {"dm", "dm2", "dm3", "ytdlp", "yt2", "orch", "pq",
                   "pq2", "vpn", "tui", "sample"}
  /\ engine_alive = TRUE
  /\ InitDM
  /\ InitVPN
  /\ InitPC

InitOf(c) == Init /\ component = c

SpecDM == InitOf("dm") /\ [][NextDM]_vars

SpecDM2 == InitOf("dm2") /\ [][NextDM]_vars

(* DownloadManager when stop() is never called.  The dispatcher thread     *)
(* (run) and the pool threads are scheduled by the interpreter, which      *)
(* switches threads at regular intervals, so a thread that can take a step *)
(* eventually takes it; extract_info and download are assumed to end       *)
(* (return or raise).  Nothing is assumed of the caller of add_download.   *)
run_step == run_check \/ run_get \/ run_submit \/ run_track \/ run_wait

NextDMRunning ==
  \/ \E url \in AllTasks : add_download(url)
  \/ add_download_log
  \/ run_check
  \/ run_get
  \/ run_submit
  \/ run_track
  \/ run_wait
  \/ worker_take
  \/ \E url \in AllTasks : download_video(url)

FairDM ==
  /\ WF_vars(run_step)
  /\ WF_vars(worker_take)
  /\ \A url \in AllTasks : WF_vars(download_video(url))

SpecDMRunning == InitOf("dm") /\ [][NextDMRunning]_vars /\ FairDM

SpecDM3 == InitOf("dm3") /\ [][NextDMRunning]_vars

NextYTDLP ==
  \/ start_downloads
  \/ start_downloads_loop
  \/ start_downloads_result
  \/ stop_downloads
  \/ stop_queue
  \/ stop_downloads_clear
  \/ pc_download_video(Inline)

SpecYTDLP == InitOf("ytdlp") /\ [][NextYTDLP]_vars

(* AutoYTDLP.run and the start_downloads calls it leads to.  The user      *)
(* interface handles one key at a time in the thread of run(), so under    *)
(* run() stop_downloads is only called when no start_downloads call is in  *)
(* progress, and then it returns at line 91 with no effect.                *)
NextORCH ==
  \/ run_connect
  \/ run_cli_end
  \/ run_finally
  \/ start_downloads
  \/ start_downloads_loop
  \/ start_downloads_result
  \/ pc_download_video(Inline)

SpecORCH == InitOf("orch") /\ [][NextORCH]_vars

NextPQ ==
  \/ \E url \in URLs : pq_add_to_queue(url)
  \/ process_queue
  \/ process_queue_submit
  \/ pool_take
  \/ process_queue_collect
  \/ process_queue_finally
  \/ stop_queue
  \/ \E x \in Exec \ {Inline} : pc_download_video(x)

SpecPQ == InitOf("pq") /\ [][NextPQ]_vars

SpecPQ2 == InitOf("pq2") /\ [][NextPQ]_vars

(* PerformanceControl under both of its callers: start_downloads, and     *)
(* process_queue with a pool of max_concurrent_downloads workers.          *)
NextPC == NextYTDLP \/ NextPQ

InitOfPC ==
  /\ Init
  /\ \/ component = "ytdlp"
     \/ component = "pq2" /\ pc_max_workers = max_concurrent_downloads

SpecPC == InitOfPC /\ [][NextPC]_vars

SpecVPN == InitOf("vpn") /\ [][NextVPN]_vars

SpecTUI == InitOf("tui") /\ [][NextTUI]_vars

(* ------------------- a second caller of start_downloads --------------- *)

(* AutoYTDLP has no lock: a second thread may call start_downloads while   *)
(* the first is inside it.  Its download_video calls are those of SecondCall. *)
SecondCall == 1

(* start_downloads, lines 42-49, called once by the second thread.         *)
b_start_downloads ==
  /\ UNCHANGED <<sampleVars, stale, stops_at_start, stop_since_start,
                 file_missing>>
  /\ component = "yt2"
  /\ b_pc = "idle"
  /\ IF is_downloading
       THEN /\ b_pc' = "returned"
            /\ UNCHANGED <<is_downloading, pc_download_queue, enqueued>>
       ELSE \E urls \in load_url_list :
              /\ is_downloading' = TRUE
              /\ pc_download_queue' = add_all(pc_download_queue, urls)
              /\ enqueued' = enqueued \o urls
              /\ b_pc' = "loop"
  /\ UNCHANGED orchVars
  /\ UNCHANGED <<component, engine_alive, dmVars, vpnVars, dvVars, pqVars,
                 download_archive, stop_flag, current_ydl, executor,
                 vpn_switch_needed, o_pc, current_url, runs, claimed,
                 history, switches, k_pc>>

(* start_downloads, lines 52-60 and 86-87, in the second thread.           *)
b_start_downloads_loop ==
  /\ UNCHANGED <<sampleVars, stale, stops_at_start, stop_since_start,
                 file_missing>>
  /\ component = "yt2"
  /\ b_pc = "loop"
  /\ IF pc_download_queue = <<>>
       THEN /\ is_downloading' = FALSE
            /\ b_pc' = "returned"
            /\ UNCHANGED <<pc_download_queue, vpn_switch_needed, switches,
                           claimed, dvVars>>
       ELSE /\ IF vpn_switch_needed
                 THEN /\ switches' = switches + 1
                      /\ vpn_switch_needed' = FALSE
                 ELSE UNCHANGED <<switches, vpn_switch_needed>>
            /\ pc_download_queue' = Tail(pc_download_queue)
            /\ claimed' = Append(claimed, Head(pc_download_queue))
            /\ enter_download_video(SecondCall, Head(pc_download_queue))
            /\ b_pc' = "download"
            /\ UNCHANGED is_downloading
  /\ UNCHANGED orchVars
  /\ UNCHANGED <<component, engine_alive, dmVars, vpnVars, pqVars,
                 download_archive, stop_flag, current_ydl, executor, o_pc,
                 current_url, runs, enqueued, history, k_pc>>

(* start_downloads, lines 60-64, in the second thread.                     *)
b_start_downloads_result ==
  /\ UNCHANGED <<sampleVars, stale, stops_at_start, stop_since_start,
                 file_missing>>
  /\ component = "yt2"
  /\ b_pc = "download"
  /\ dv_pc[SecondCall] = "returned"
  /\ \E speed \in get_current_speed :
       LET r == should_switch(download_count, speed) IN
         /\ download_count' = r.download_count
         /\ vpn_switch_needed' = (vpn_switch_needed \/ r.result)
  /\ UNCHANGED <<switch_after, speed_threshold, vpn_calls, last_call, swVars>>
  /\ history' = Append(history, [url |-> dv_url[SecondCall],
                                 status |-> dv_result[SecondCall],
                                 fetched |-> dv_fetched[SecondCall]])
  /\ dv_pc' = [dv_pc EXCEPT ![SecondCall] = "none"]
  /\ b_pc' = "loop"
  /\ UNCHANGED orchVars
  /\ UNCHANGED <<component, engine_alive, dmVars, pqVars, pc_download_queue,
                 download_archive, stop_flag, current_ydl, executor,
                 is_downloading, o_pc, current_url, runs, enqueued, claimed,
                 switches, k_pc, dv_url, dv_exc, dv_result, dv_fetched,
                 dv_hook_raised, dv_archived>>

NextYT2 ==
  \/ NextYTDLP
  \/ b_start_downloads
  \/ b_start_downloads_loop
  \/ b_start_downloads_result
  \/ pc_download_video(SecondCall)

SpecYT2 == InitOf("yt2") /\ [][NextYT2]_vars

(* ------------------------- progress samples --------------------------- *)

(* The progress events the fetch capability delivers to the hook: a        *)
(* 'downloading' event carries the bytes transferred so far.               *)
ProgressEvents ==
  [status : {"downloading"}, downloaded_bytes : 1..MaxBytes]
    \cup [status : {"finished"}, downloaded_bytes : {0}]

(* Time passes.                                                            *)
sample_tick ==
  /\ component = "sample"
  /\ now < MaxClock
  /\ now' = now + 1
  /\ UNCHANGED <<start_time, downloaded_bytes, hook_events>>
  /\ UNCHANGED <<component, engine_alive, dmVars, vpnVars, pcVars, dvVars,
                 pqVars, restartVars, stale>>

(* progress_hook(d), lines 106-113, with no user interface: it returns     *)
(* unless line 108 raises, and assigns no field of PerformanceControl.     *)
sample_progress_hook(d) ==
  /\ component = "sample"
  /\ Len(hook_events) < MaxEvents
  /\ progress_hook(d.status) = NoFault
  /\ hook_events' = Append(hook_events,
                           [status |-> d.status,
                            downloaded_bytes |-> d.downloaded_bytes,
                            at |-> now])
  /\ UNCHANGED <<start_time, downloaded_bytes, now>>
  /\ UNCHANGED <<component, engine_alive, dmVars, vpnVars, pcVars, dvVars,
                 pqVars, restartVars, stale>>

(* get_current_speed on the fields of the sample: the bytes transferred    *)
(* divided by the elapsed time, 0 when there is no sample.                 *)
current_speed ==
  IF start_time = None THEN 0
  ELSE IF now = start_time THEN 0
  ELSE downloaded_bytes \div (now - start_time)

NextSample ==
  \/ sample_tick
  \/ \E d \in ProgressEvents : sample_progress_hook(d)

SpecSample == InitOf("sample") /\ [][NextSample]_vars

Next == NextDM \/ NextYTDLP \/ NextORCH \/ NextPQ \/ NextVPN \/ NextTUI
          \/ NextSample \/ NextYT2

Spec == Init /\ [][Next]_vars

(* ------------------------------ claims -------------------------------- *)

Statuses(url) == {status_queue[url][i] : i \in DOMAIN status_queue[url]}
TerminalEvents(url) == {i \in DOMAIN status_queue[url] : status_queue[url][i] \in TerminalStatus}
LastStatus(url) == status_queue[url][Len(status_queue[url])]

(* C1: for every URL dispatched by DownloadManager at most one terminal    *)
(* status event (Completed, Error, Stopped, Cancelled) is ever put on the  *)
(* status queue.                                                           *)
C1_AtMostOneTerminal ==
  \A url \in Tasks : Cardinality(TerminalEvents(url)) <= 1

(* C2: once stop() has returned and the dispatcher and all workers have    *)
(* finished, the last published status of every URL given to add_download  *)
(* is a terminal one (not Queued, not Downloading).                        *)
C2_TerminalAfterStop ==
  (/\ m_pc = "stopped"
   /\ d_pc \in {"done", "crashed"}
   /\ Running = {}
   /\ work_queue = <<>>)
  => \A url \in 1..n_added :
       status_queue[url] # <<>> /\ LastStatus(url) \in TerminalStatus

(* C3: if stop() is requested while N URLs are queued and none is          *)
(* downloading, none of the N is ever taken for submission to a worker,    *)
(* none gets Completed, and all N have Cancelled once stop() has returned. *)
C3_StopDrainsQueue ==
  at_stop.quiet =>
    \A url \in at_stop.queued :
      /\ fut[url] = "none" /\ d_task # url
      /\ "Completed" \notin Statuses(url)
      /\ m_pc = "stopped" => "Cancelled" \in Statuses(url)

(* C4: the number of download_video executions in progress at once never   *)
(* exceeds max_concurrent_downloads, in DownloadManager and in             *)
(* PerformanceControl.process_queue.                                       *)
C4_BoundedConcurrency ==
  /\ Cardinality(Running) <= max_concurrent_downloads
  /\ Cardinality(PoolRunning) <= max_concurrent_downloads

(* C5: URLs are claimed for download in the order they were enqueued: the  *)
(* k-th URL popped by the loop of start_downloads is the k-th URL given to *)
(* add_to_queue, and the k-th URL DownloadManager.run takes is the k-th    *)
(* URL given to add_download (URL k).                                      *)
C5_FifoClaimOrder ==
  /\ Len(claimed) <= Len(enqueued)
  /\ \A k \in DOMAIN claimed : claimed[k] = enqueued[k]
  /\ \A k \in DOMAIN claim_order : claim_order[k] = k

(* C6: the n-th should_switch call on a fresh manager returns true if and  *)
(* only if its speed is below speed_threshold or n is a positive multiple  *)
(* of switch_after.                                                        *)
C6_RotationRule ==
  vpn_calls >= 1 =>
    (last_call.result <=>
       (last_call.speed < speed_threshold \/ vpn_calls % switch_after = 0))

(* The second cadence rotation, with a speed that does not trigger.        *)
C6_Witness ==
  /\ switch_after >= 2
  /\ vpn_calls = 2 * switch_after
  /\ last_call.speed >= speed_threshold
  /\ last_call.result

(* C7: a should_switch call resets download_count to 0 exactly when its    *)
(* post-increment count reaches switch_after; a call that returns true     *)
(* only because of the speed keeps the incremented count; after every call *)
(* 0 <= download_count < switch_after.                                     *)
C7_CounterInvariant ==
  vpn_calls >= 1 =>
    /\ download_count = IF last_call.before + 1 = switch_after
                          THEN 0 ELSE last_call.before + 1
    /\ (download_count = 0) <=> (last_call.before + 1 = switch_after)
    /\ 0 <= download_count /\ download_count < switch_after

(* A call that returned true for the speed alone and kept the count.       *)
C7_Witness ==
  /\ vpn_calls >= 1
  /\ last_call.result
  /\ last_call.before + 1 < switch_after
  /\ download_count = last_call.before + 1

Occurrences(queue, url) == Cardinality({i \in DOMAIN queue : queue[i] = url})

(* C9: enqueueing a URL that is already queued has no effect: after any    *)
(* sequence of enqueue calls no URL has more than one entry in the         *)
(* download queue.                                                         *)
C9_IdempotentEnqueue ==
  \A url \in URLs : Occurrences(pc_download_queue, url) <= 1

(* C10 as stated: of two download_video calls for the same URL, the second *)
(* after the first returned 'success', the second returns 'skipped' and    *)
(* does not invoke the download.                                           *)
C10_SuccessThenSkipped ==
  \A i, j \in DOMAIN history :
    (i < j /\ history[i].url = history[j].url /\ history[i].status = "success")
      => history[j].status = "skipped" /\ ~history[j].fetched

(* C10 amended: the second call never invokes the download and never       *)
(* returns 'success'; it returns 'skipped', or 'error' (its extraction     *)
(* failed), or 'stopped' (a stop was requested).                           *)
C10_NeverRefetched ==
  \A i, j \in DOMAIN history :
    (i < j /\ history[i].url = history[j].url /\ history[i].status = "success")
      => /\ ~history[j].fetched
         /\ history[j].status \in {"skipped", "error", "stopped"}
         /\ history[j].status = "stopped" => stop_flag

(* The same URL downloaded, then skipped.                                  *)
C10_Witness ==
  \E i, j \in DOMAIN history :
    /\ i < j /\ history[i].url = history[j].url
    /\ history[i].status = "success" /\ history[j].status = "skipped"

(* C11: a stop requested when a stop is already in progress or finished is *)
(* a no-op: from the moment a second DownloadManager.stop() call begins,   *)
(* no further termination signal is sent and no further status event is    *)
(* published by stop().                                                    *)
C11_StopIdempotent ==
  stops >= 2 =>
    /\ SignalsSent = at_restop.signals
    /\ StopEvents = at_restop.events

(* C12: on stop(), every URL registered as in flight has a termination     *)
(* signal sent once to its registered process and 'Stopped' published:     *)
(* a URL whose process was signalled has 'Stopped'; no process is          *)
(* signalled twice by one stop(); and when the first stop() has left its   *)
(* termination loop, or has ended, every URL that was registered when it   *)
(* was called and still is has been signalled.                             *)
C12_ForcefulTermination ==
  /\ \A url \in Tasks : signals[url] >= 1 => "Stopped" \in Statuses(url)
  /\ stops = 1 => \A url \in Tasks : signals[url] <= 1
  /\ (stops = 1 /\ m_pc \in {"drain", "join", "stopped", "raised"}) =>
       \A url \in at_stop.registered \cap DOMAIN current_processes :
         signals[url] = 1

(* C19: for every URL the status events on the status queue (a FIFO the    *)
(* observer drains in order, without loss) are, in the order they were     *)
(* produced, Queued, then Downloading, then one terminal status.           *)
C19_LifecycleOrder ==
  \A url \in Tasks :
    LET ev == status_queue[url] IN
      /\ Len(ev) <= 3
      /\ Len(ev) >= 1 => ev[1] = "Queued"
      /\ Len(ev) >= 2 => ev[2] = "Downloading"
      /\ Len(ev) >= 3 => ev[3] \in TerminalStatus

(* C13: a fetch that fails yields an 'error' result for its URL only, and  *)
(* does not end the loop of start_downloads: the results received so far   *)
(* are those of the URLs enqueued, in order, one for each URL taken; and   *)
(* when a start_downloads call has returned the queue is empty and every   *)
(* URL enqueued has been attempted.                                        *)
C13_ErrorIsolation ==
  /\ Len(outcomes) <= Len(enqueued)
  /\ \A i \in DOMAIN outcomes : outcomes[i].url = enqueued[i]
  /\ (Orch /\ o_pc = "idle" /\ o_exit # "none") =>
       /\ pc_download_queue = <<>>
       /\ Len(outcomes) = Len(enqueued)

(* Rotation requests served by a switch_server call whose disconnect or    *)
(* connect step failed.                                                    *)
FailedSwitches == {i \in DOMAIN switch_log : switch_log[i].outcome # "ok"}

(* C20: when the disconnect or connect step of a switch_server call fails, *)
(* the connection is not reported as switched (the user interface is told  *)
(* "VPN connection switched" at most once for each rotation that worked),  *)
(* the pending request is dropped, and the loop goes on: a start_downloads *)
(* call made after a failed rotation returns with the queue empty.         *)
C20_RotationFailureTolerated ==
  /\ shown_switched <= Cardinality(DOMAIN switch_log \ FailedSwitches)
  /\ (FailedSwitches # {} /\ o_pc = "idle" /\ o_exit # "none") =>
       pc_download_queue = <<>>
  /\ (switch_log # <<>> /\ switch_log[Len(switch_log)].outcome # "ok"
        /\ triggers = 0) => ~vpn_switch_needed

C15_CoalescedRotation ==
  Orch =>
    /\ \A i \in DOMAIN switch_log : switch_log[i].triggers >= 1
    /\ Len(switch_log) <=
         Cardinality({i \in DOMAIN outcomes : outcomes[i].trigger})

(* C16: when a URL's download has failed and the rotation trigger has      *)
(* fired, the URL is attempted again after the rotation: once run_cli has  *)
(* returned, the user interface has been told Failed and later Completed   *)
(* for that URL, and switch_server was called once for that trigger.       *)
C16_RetryAfterFailure ==
  (Orch /\ use_tui /\ r_pc = "finally") =>
    \A i \in DOMAIN outcomes :
      (outcomes[i].status = "error" /\ outcomes[i].trigger) =>
        /\ \E j, k \in DOMAIN ui_reports :
             /\ j < k
             /\ ui_reports[j] = [url |-> outcomes[i].url, status |-> "Failed"]
             /\ ui_reports[k] = [url |-> outcomes[i].url, status |-> "Completed"]
        /\ \E j \in DOMAIN outcomes : j > i /\ outcomes[j].url = outcomes[i].url
        /\ Len(switch_log) >= 1

(* C18: every URL whose download attempt has returned has its outcome      *)
(* reported to the status list of the user interface: the entry added for  *)
(* the i-th URL enqueued is no longer displayed as Queued once the i-th    *)
(* result has been received.                                               *)
C18_TerminalStatusSurfaced ==
  (Orch /\ use_tui) =>
    \A i \in DOMAIN outcomes :
      /\ i \in DOMAIN download_list
      /\ download_list[i].url = outcomes[i].url
      /\ download_list[i].status # "Queued"

(* C17: no failed download and no exception raised in the download loop    *)
(* leaves start_downloads; every start_downloads call returns with         *)
(* is_downloading false; and run() calls vpn_manager.disconnect() once,    *)
(* after the downloads have ended, and not before.                         *)
C17_FailuresNotFatal ==
  Orch =>
    /\ o_exit # "propagated"
    /\ (o_pc = "idle" /\ o_exit = "returned") => ~is_downloading
    /\ r_pc \in {"init", "cli", "finally"} => disconnects = 0
    /\ r_pc \in {"returned", "raised"} => disconnects = 1 /\ o_pc = "idle"

(* run() has ended after a download failed and after an exception ended    *)
(* the download loop.                                                      *)
C17_Witness ==
  /\ Orch /\ r_pc = "returned" /\ disconnects = 1
  /\ \E i \in DOMAIN outcomes : outcomes[i].status = "error"
  /\ \E i \in DOMAIN switch_log : switch_log[i].outcome = "raised"
  /\ o_exit = "returned" /\ ~is_downloading

(* C25: every fetch in flight in PerformanceControl can be reached through *)
(* its own cancellation handle: a download_video call that is inside       *)
(* extract_info or download is the one self.current_ydl refers to, so      *)
(* stop_queue (line 140) marks it, and no other call has cleared or        *)
(* replaced its handle.                                                    *)
C25_OwnCancellationHandle ==
  \A x \in Exec : dv_pc[x] \in {"extract", "transfer"} => current_ydl = x

(* C26: of the download_video calls that resolve to the same content       *)
(* identifier, at most one invokes the download and returns 'success'.     *)
C26_ConcurrentDedup ==
  \A x, y \in Exec :
    (/\ x # y
     /\ dv_url[x] # 0 /\ dv_url[y] # 0
     /\ VideoId(dv_url[x]) = VideoId(dv_url[y]))
    => ~(/\ dv_fetched[x] /\ dv_result[x] = "success"
         /\ dv_fetched[y] /\ dv_result[y] = "success")

(* C29: DownloadManager.stop() always returns: a stop() call that has      *)
(* begun is in progress or has returned; it does not end with an           *)
(* exception and it does not end the engine.                               *)
C29_StopTerminates ==
  /\ m_pc # "raised"
  /\ engine_alive
  /\ m_pc \in {"idle", "log_queued"} => ~stop_event

(* C22: the archive is durable: once the first download of a run() has     *)
(* begun the identifiers of the archive file are in download_archive (the  *)
(* file was loaded), and after every download that ended in 'success' the  *)
(* archive file holds its content identifier.                              *)
C22_ArchiveDurable ==
  Orch =>
    /\ claimed # <<>> => archive_file \subseteq download_archive
    /\ \A i \in DOMAIN outcomes :
         outcomes[i].status = "success" =>
           VideoId(outcomes[i].url) \in archive_file

(* C23: when run() has ended after the user started downloads and then     *)
(* left the interface (quit), the downloads have been stopped (stop_queue  *)
(* was called: the stop flag is set), vpn_manager.disconnect() has been    *)
(* called once, run() has returned normally (exit status 0) and no         *)
(* download is in progress.                                                *)
C23_QuitUnwinds ==
  (Orch /\ use_tui /\ runs >= 1 /\ r_pc \in {"returned", "raised"}) =>
    /\ stop_flag
    /\ disconnects = 1
    /\ r_pc = "returned"
    /\ o_pc = "idle" /\ dv_pc[Inline] = "none"

(* C21 as stated: every switch_server call that has ended has invoked the  *)
(* rotation tool twice, disconnect and then connect, and has returned true *)
(* exactly when both succeeded.                                            *)
C21_DisconnectThenConnect ==
  (sw_calls >= 1 /\ sw_pc = "idle") =>
    /\ Len(tool_log) = 2
    /\ tool_log[1].cmd = "disconnect" /\ tool_log[2].cmd = "connect"
    /\ sw_result = "ok" <=>
         (tool_log[1].outcome = "ok" /\ tool_log[2].outcome = "ok")

(* C21 amended: the first tool invocation of a switch_server call is the   *)
(* disconnect; the connect is invoked, after the disconnect has returned,  *)
(* only if the disconnect succeeded (a call whose disconnect fails makes   *)
(* one tool invocation); and the call returns true exactly when both       *)
(* succeeded.                                                              *)
C21_ConnectOnlyAfterDisconnected ==
  /\ Len(tool_log) <= 2
  /\ tool_log # <<>> => tool_log[1].cmd = "disconnect"
  /\ Len(tool_log) = 2 =>
       tool_log[2].cmd = "connect" /\ tool_log[1].outcome = "ok"
  /\ sw_pc = "connect" => Len(tool_log) = 1
  /\ (sw_calls >= 1 /\ sw_pc = "idle") =>
       /\ tool_log # <<>>
       /\ tool_log[1].outcome = "ok" => Len(tool_log) = 2
       /\ sw_result = "ok" <=>
            (/\ Len(tool_log) = 2
             /\ tool_log[1].outcome = "ok" /\ tool_log[2].outcome = "ok")

(* A switch_server call whose disconnect failed has returned false after   *)
(* one tool invocation.                                                    *)
C21_Witness ==
  /\ sw_calls >= 1 /\ sw_pc = "idle"
  /\ tool_log = <<[cmd |-> "disconnect", outcome |-> "failed"]>>
  /\ sw_result = "failed"

(* C27: every rotation request is forwarded before the run ends: when      *)
(* start_downloads has returned, no should_switch call that returned true  *)
(* is left without a switch_server invocation after it.                    *)
C27_RequestForwarded ==
  (Orch /\ runs >= 1 /\ o_pc = "idle") => triggers = 0

(* C24: after stop_queue has been called, a work item that no pool thread  *)
(* had taken is never fetched: its download_video never invokes            *)
(* ydl.download and never returns 'success'.                               *)
C24_NoFetchAfterStop ==
  \A x \in pending_at_stop :
    ~dv_fetched[x] /\ dv_result[x] # "success"

(* The calls of download_video made for the current process_queue call.    *)
CallsOfRun == FirstOf(runs)..(q_next - 1)

(* C30: when stop_queue has not been called, process_queue does not raise, *)
(* and when it has returned it has run download_video exactly once for     *)
(* each entry of the download queue and holds exactly one result for each  *)
(* entry, whatever the queue length is relative to                         *)
(* max_concurrent_downloads; a call of download_video that raised has an   *)
(* 'error' result for its URL.                                             *)
C30_WholeQueueCovered ==
  k_pc = "idle" =>
    /\ q_pc \notin {"raise", "raised"}
    /\ q_pc = "returned" =>
         /\ Cardinality(CallsOfRun) = Len(pc_download_queue)
         /\ \A i \in DOMAIN pc_download_queue :
              LET x == FirstOf(runs) + i - 1 IN
              /\ dv_url[x] = pc_download_queue[i]
              /\ dv_pc[x] = "returned"
         /\ \A i \in DOMAIN q_work : q_work[i] \notin CallsOfRun
         /\ Len(results) = Len(pc_download_queue)
         /\ \A url \in URLs :
              /\ Cardinality({i \in DOMAIN results : results[i].url = url})
                   = Cardinality({i \in DOMAIN pc_download_queue :
                                    pc_download_queue[i] = url})
              /\ Cardinality({i \in DOMAIN results :
                                /\ results[i].url = url
                                /\ results[i].status = "error"})
                   >= Cardinality({x \in CallsOfRun :
                                     /\ dv_url[x] = url
                                     /\ dv_result[x] = Escaped})
         /\ \A i \in DOMAIN results :
              results[i].status \in {"success", "skipped", "error"}

(* process_queue has returned two results for a queue of two URLs run on   *)
(* one worker, one of the calls having raised; no stop was requested.      *)
C30_Witness ==
  /\ k_pc = "idle" /\ q_pc = "returned"
  /\ pc_max_workers = 1
  /\ Len(pc_download_queue) = 2 /\ Len(results) = 2
  /\ \E x \in CallsOfRun : dv_result[x] = Escaped
  /\ \E x \in CallsOfRun : dv_fetched[x]

(* C28: when stop() is never called and every fetch ends, every URL passed *)
(* to add_download is eventually taken from the queue, run by a pool       *)
(* thread and given a terminal status, 'Completed' or 'Error', also when   *)
(* more URLs are waiting than max_concurrent_downloads and when URLs are   *)
(* added while downloads are running.                                      *)
C28_EveryUrlFinishes ==
  \A url \in Tasks :
    (n_added >= url) ~>
      (/\ url \in {claim_order[i] : i \in DOMAIN claim_order}
       /\ fut[url] = "finished"
       /\ Statuses(url) \cap {"Completed", "Error"} # {})

(* All MaxTasks URLs have run and have a terminal status, the last of them *)
(* having been added while a download was running and having waited for a  *)
(* free place; stop() was not called.                                      *)
C28_Witness ==
  /\ ~stop_event /\ stops = 0
  /\ n_added = MaxTasks
  /\ MaxTasks > max_concurrent_downloads
  /\ \A url \in Tasks :
       fut[url] = "finished" /\ Statuses(url) \cap {"Completed", "Error"} # {}

(* C35: the process id registered as the cancellation handle of a          *)
(* download in flight is never the id of the process running the engine,   *)
(* and stop() never ends the engine's own process.                         *)
C35_EngineNeverTerminatesItself ==
  /\ \A url \in DOMAIN current_processes :
       current_processes[url] # EnginePid
  /\ \A url \in DOMAIN s_items : s_items[url] # EnginePid
  /\ engine_alive

(* C34: a call update_download_status(url, status) changes the row of that *)
(* URL only: the rows of all other URLs, also of URLs whose text contains  *)
(* the given URL, are unchanged, and a row is appended only when the URL   *)
(* has no row yet.                                                         *)
C34_RowUpdatesLocal ==
  [][(component = "tui" /\ ui_reports' # ui_reports) =>
       LET url == ui_reports'[Len(ui_reports')].url IN
       /\ \A i \in DOMAIN download_list :
            download_list[i].url # url =>
              download_list'[i] = download_list[i]
       /\ Len(download_list') > Len(download_list) =>
            \A i \in DOMAIN download_list : download_list[i].url # url]_vars

(* C40: when process_queue has returned and no stop was requested, none of *)
(* the URLs it has a result for is still in the download queue.            *)
C40_ProcessedUrlsLeaveQueue ==
  (k_pc = "idle" /\ q_pc = "returned") =>
    \A i \in DOMAIN results :
      \A j \in DOMAIN pc_download_queue :
        pc_download_queue[j] # results[i].url

(* C39: once stop has been requested (the stop flag is set) the loop of    *)
(* start_downloads does not call switch_server, and a download_video       *)
(* result 'stopped' is not followed by a should_switch call: it leaves the *)
(* rotation counter and the pending rotation request as they are.          *)
C39_NoRotationAfterStop ==
  [][(component = "ytdlp") =>
       /\ stop_flag => switches' = switches
       /\ (/\ o_pc = "download" /\ o_pc' = "loop"
           /\ dv_result[Inline] = "stopped")
            => /\ download_count' = download_count
               /\ vpn_switch_needed' = vpn_switch_needed]_vars

(* C32: a result carries an error message if and only if its status is     *)
(* 'error': every result in the list process_queue builds, and every       *)
(* result a download_video call has returned.                              *)
C32_ErrorDetailIffError ==
  /\ \A i \in DOMAIN results :
       (results[i].error # "none") <=> (results[i].status = "error")
  /\ \A x \in Exec :
       (dv_pc[x] = "returned" /\ dv_result[x] # Escaped) =>
         ((result_error(dv_result[x], dv_exc[x]) # "none")
            <=> (dv_result[x] = "error"))

(* process_queue holds an 'error' result with its message, made from a     *)
(* call that raised, and a 'cancelled' result without one.                 *)
C32_Witness ==
  /\ \E i \in DOMAIN results :
       results[i].status = "error" /\ results[i].error = "download failed"
  /\ \E i \in DOMAIN results :
       results[i].status = "cancelled" /\ results[i].error = "none"
  /\ \E x \in Exec : dv_pc[x] = "returned" /\ dv_result[x] = Escaped

(* The URLs run() has taken from the download queue whose download has not *)
(* finished yet.                                                           *)
ClaimedUnfinished ==
  {claim_order[i] : i \in DOMAIN claim_order}
    \ {t \in AllTasks : fut[t] \in FutureDone}

(* C36: the URLs taken from the download queue whose download has not yet  *)
(* finished are never more than max_concurrent_downloads, and when an      *)
(* iteration of run begins current_futures holds no future that is already *)
(* done.                                                                   *)
C36_ClaimedWithinSlots ==
  /\ Cardinality(ClaimedUnfinished) <= max_concurrent_downloads
  /\ stale = {}

(* C33: a start_downloads call whose load_url_list found the links file    *)
(* missing or unreadable returns without attempting any download: it makes *)
(* no download_video call.                                                 *)
C33_MissingFileNoDownload ==
  (Orch /\ file_missing) => o_pc # "download"

(* C31: PerformanceControl keeps a progress sample only while a download   *)
(* is in progress: after a 'downloading' progress event the sample holds   *)
(* a start time and the bytes the event reported, and get_current_speed    *)
(* is those bytes divided by the elapsed time; after a 'finished' event    *)
(* get_current_speed is 0 and the start time and byte counter are reset.   *)
C31_SampleFollowsEvents ==
  (component = "sample" /\ hook_events # <<>>) =>
    LET d == hook_events[Len(hook_events)] IN
      IF d.status = "downloading"
        THEN /\ start_time # None
             /\ downloaded_bytes = d.downloaded_bytes
             /\ now > start_time =>
                  current_speed = d.downloaded_bytes \div (now - start_time)
        ELSE /\ current_speed = 0
             /\ start_time = None
             /\ downloaded_bytes = 0

(* C37: at most one start_downloads loop is active at any time: while the  *)
(* call of one thread has not returned, the call of another thread has     *)
(* returned at the is_downloading guard without enqueueing or downloading. *)
C37_SingleDownloadLoop ==
  component = "yt2" => ~(o_pc # "idle" /\ b_pc \in {"loop", "download"})

(* C38: a start_downloads call made after a stop_downloads request has     *)
(* completed, with no stop request since, enters its download_video calls  *)
(* with the stop flag cleared.                                             *)
C38_StopNotPermanent ==
  (component = "yt2" /\ dv_pc[Inline] = "check"
     /\ stops_at_start /\ ~stop_since_start) => ~stop_flag
=============================================================================
